---------------------------- MODULE Spec2Model ----------------------------
(***************************************************************************)
(* Faithfulness benchmark pipeline: the judge scorer (response parsing,    *)
(* the remote chat-completion client with its retry loop, the resumable   *)
(* batch run over the artifact store) and the composite aggregator        *)
(* (weighted score, per-model lists, paired bootstrap significance).      *)
(*                                                                         *)
(* Texts are sequences of lexical chunks [c, k, v, n]: c is the kind of    *)
(* chunk, n the number of characters it stands for, and for a JSON member  *)
(* chunk ("mem") k is its key and v its value.  Scores are integers:      *)
(* judge_score in tenths, pillar scores in hundredths, composite scores   *)
(* in ten-thousandths.                                                    *)
(***************************************************************************)
EXTENDS Integers, Sequences, FiniteSets, TLC

VARIABLES
    es,     \* one call of JudgeEvaluator.evaluate_summary on a response text
    cc,     \* one call of OpenRouterClient.chat_completion
    store,  \* the judge artifact directory: path -> file content
    jb,     \* evaluate_all_judge: the run in progress and the run history
    sc,     \* one call of compute_composite_score
    cp,     \* compute_all_composite_scores with its pairwise test
    bs,     \* one call of bootstrap_composite_ci
    nl,     \* one call of NLIEvaluator.evaluate_summary
    cv,     \* one call of CoverageEvaluator.evaluate_summary
    pk,     \* two pillar-result keys and their artifact paths
    pb,     \* evaluate_all_nli / evaluate_all_coverage with their directory
    lg,     \* update_evaluation_log_csv: the log file and the calls made
    ld,     \* the analyses that read the persisted judge artifacts
    tx,     \* one call of classify_error or classify_omission
    kp,     \* one call of _weighted_kappa
    ag,     \* analyze_taxonomy and the severity table of the report
    sd,     \* compute_score_distributions for one judge
    vo      \* the order in which evaluate_all_judge visits its keys

core == <<es, cc, store, jb, sc, cp>>
extra == <<tx, kp, ag, sd, vo>>
later == <<bs, nl, cv, pk, pb, lg, ld, extra>>
vars == <<es, cc, store, jb, sc, cp, bs, nl, cv, pk, pb, lg, ld, tx, kp, ag, sd, vo>>

(***************************************************************************)
(* Bounds of the model.                                                    *)
(***************************************************************************)
MaxTokens == 4

(***************************************************************************)
(* Program constants.                                                      *)
(***************************************************************************)
RAW_RESPONSE_LIMIT == 500
DEFAULT_SCORE == 3

(***************************************************************************)
(* Values of JSON members and of result fields.                            *)
(***************************************************************************)
Missing == [t |-> "missing", i |-> 0]
IntV(n) == [t |-> "int", i |-> n]
StrV == [t |-> "str", i |-> 0]
BoolV(b) == [t |-> "bool", i |-> IF b THEN 1 ELSE 0]
ListV(n) == [t |-> "list", i |-> n]

(***************************************************************************)
(* Chunks of a response text.                                              *)
(***************************************************************************)
Chunk(c, k, v, n) == [c |-> c, k |-> k, v |-> v, n |-> n]
Prose(n) == Chunk("x", "", Missing, n)
LBrace == Chunk("{", "", Missing, 1)
RBrace == Chunk("}", "", Missing, 1)
Member(k, v, n) == Chunk("mem", k, v, n)

MemAccuracy4 == Member("factual_accuracy", IntV(4), 21)
MemCompleteness5 == Member("completeness", IntV(5), 17)
MemAccuracyStr == Member("factual_accuracy", StrV, 23)
MemErrors == Member("factual_errors", ListV(1), 40)
MemCompleteness9 == Member("completeness", IntV(9), 17)

ResponseChunks ==
    {Prose(1), Prose(300), LBrace, RBrace,
     MemAccuracy4, MemCompleteness5, MemAccuracyStr, MemErrors, MemCompleteness9}

RECURSIVE SeqsUpTo(_, _)
SeqsUpTo(S, n) ==
    IF n = 0 THEN {<<>>}
    ELSE LET shorter == SeqsUpTo(S, n - 1)
         IN  shorter \cup {Append(s, x) : s \in {t \in shorter : Len(t) = n - 1}, x \in S}

ResponseTexts == SeqsUpTo(ResponseChunks, MaxTokens)

RECURSIVE TextLen(_)
TextLen(s) == IF s = <<>> THEN 0 ELSE Head(s).n + TextLen(Tail(s))

\* response[:k]: the first k characters; the chunk the cut falls in is kept
\* with the characters left of the cut.
RECURSIVE Take(_, _)
Take(s, k) ==
    IF s = <<>> \/ k <= 0 THEN <<>>
    ELSE IF Head(s).n <= k THEN <<Head(s)>> \o Take(Tail(s), k - Head(s).n)
    ELSE <<[Head(s) EXCEPT !.n = k]>>

(***************************************************************************)
(* parse_judge_response                                                    *)
(***************************************************************************)
Positions(s, c) == {i \in 1..Len(s) : s[i].c = c}
Min(S) == CHOOSE x \in S : \A y \in S : x <= y
Max(S) == CHOOSE x \in S : \A y \in S : x >= y

\* re.search(r'\{[\s\S]*\}', response): greedy, from the first '{' to the
\* last '}' after it; <<>> when there is no match.
BraceBlock(s) ==
    LET opens == Positions(s, "{")
        closes == Positions(s, "}")
    IN  IF opens = {} \/ closes = {} \/ Max(closes) < Min(opens) THEN <<>>
        ELSE SubSeq(s, Min(opens), Max(closes))

\* json.loads succeeds on the block when it is one object: '{', members, '}'.
IsJson(b) ==
    /\ Len(b) >= 2
    /\ b[1].c = "{"
    /\ b[Len(b)].c = "}"
    /\ \A i \in 2..(Len(b) - 1) : b[i].c = "mem"

\* the value json.loads gives a key: that of its last member, or Missing.
Field(b, k) ==
    LET at == {i \in 1..Len(b) : b[i].c = "mem" /\ b[i].k = k}
    IN  IF at = {} THEN Missing ELSE b[Max(at)].v

NoRaw == [present |-> FALSE, text |-> <<>>]

JsonLoads(b) ==
    [factual_accuracy |-> Field(b, "factual_accuracy"),
     completeness |-> Field(b, "completeness"),
     factual_errors |-> Field(b, "factual_errors"),
     key_omissions |-> Field(b, "key_omissions"),
     parse_error |-> Field(b, "parse_error"),
     raw_response |-> NoRaw]

DefaultResultUntruncated(response) ==
    [factual_accuracy |-> IntV(DEFAULT_SCORE),
     completeness |-> IntV(DEFAULT_SCORE),
     factual_errors |-> ListV(0),
     key_omissions |-> ListV(0),
     parse_error |-> BoolV(TRUE),
     raw_response |-> [present |-> TRUE, text |-> response]]

DefaultResult(response) ==
    [factual_accuracy |-> IntV(DEFAULT_SCORE),
     completeness |-> IntV(DEFAULT_SCORE),
     factual_errors |-> ListV(0),
     key_omissions |-> ListV(0),
     parse_error |-> BoolV(TRUE),
     raw_response |-> [present |-> TRUE, text |-> Take(response, RAW_RESPONSE_LIMIT)]]

parse_judge_response(response) ==
    LET block == BraceBlock(response)
    IN  IF block # <<>> /\ IsJson(block) THEN JsonLoads(block)
        ELSE DefaultResult(response)

(***************************************************************************)
(* JudgeEvaluator.evaluate_summary, from the response on                   *)
(***************************************************************************)
IsNumber(v) == v.t \in {"int", "bool"}

\* result["factual_accuracy"] + result["completeness"], then / 10
ScoreError(a, b) ==
    IF a = Missing \/ b = Missing THEN "KeyError"
    ELSE IF IsNumber(a) /\ IsNumber(b) THEN "none"
    ELSE "TypeError"

evaluate_summary(response) ==
    LET result == parse_judge_response(response)
        error == ScoreError(result.factual_accuracy, result.completeness)
    IN  IF error = "none"
        THEN [status |-> "returned", error |-> "none", result |-> result,
              judge_score |-> result.factual_accuracy.i + result.completeness.i]
        ELSE [status |-> "raised", error |-> error, result |-> result,
              judge_score |-> 0]

NoOutcome ==
    [status |-> "none", error |-> "none", result |-> JsonLoads(<<>>), judge_score |-> 0]

(***************************************************************************)
(* Specification of one evaluate_summary call per response text.           *)
(***************************************************************************)
Idle == [phase |-> "idle"]

ExtraIdle == tx = Idle /\ kp = Idle /\ ag = Idle /\ sd = Idle /\ vo = Idle

LaterIdle ==
    /\ bs = Idle /\ nl = Idle /\ cv = Idle /\ pk = Idle
    /\ pb = Idle /\ lg = Idle /\ ld = Idle
    /\ ExtraIdle

ParseInit ==
    /\ es \in {[response |-> r, done |-> FALSE, out |-> NoOutcome] : r \in ResponseTexts}
    /\ cc = Idle /\ store = Idle /\ jb = Idle /\ sc = Idle /\ cp = Idle
    /\ LaterIdle

EvaluateResponse ==
    /\ ~es.done
    /\ es' = [es EXCEPT !.done = TRUE, !.out = evaluate_summary(es.response)]
    /\ UNCHANGED <<cc, store, jb, sc, cp, later>>

ParseNext == EvaluateResponse

SpecParse == ParseInit /\ [][ParseNext]_vars

(***************************************************************************)
(* OpenRouterClient.chat_completion                                        *)
(***************************************************************************)
MAX_RETRIES == 5
BASE_DELAY == 10

\* What one requests.post can end in: a 200 body with a message ("ok"), a
\* 429, a 404, requests.exceptions.Timeout, any other RequestException (a
\* connection error, raise_for_status on another 4xx/5xx, a body that is
\* not JSON), a body with an "error" member, a JSON body without
\* choices[0].message.content (KeyError, IndexError, TypeError).
ResponseKinds == {"ok", "r429", "r404", "timeout", "reqerr", "errbody", "badbody"}

\* The few response texts the remote model answers with in the stepwise
\* specifications: a well-formed verdict, prose without braces, a brace
\* block that is not JSON, an object without the score fields.
TextVerdict == <<Prose(1), LBrace, MemAccuracy4, MemCompleteness5, RBrace>>
TextProse == <<Prose(300), Prose(300)>>
TextBroken == <<LBrace, Prose(1), RBrace>>
TextNoScores == <<LBrace, MemErrors, RBrace>>
JudgeResponses == {TextVerdict, TextProse, TextBroken, TextNoScores}

RECURSIVE Pow2(_)
Pow2(k) == IF k <= 0 THEN 1 ELSE 2 * Pow2(k - 1)

\* the state at the top of `for attempt in range(max_retries)`
NewCall(max_retries, base_delay) ==
    [phase |-> "running", attempt |-> 0, requests |-> 0, waits |-> <<>>,
     last |-> "none", oks |-> 0, max_retries |-> max_retries,
     base_delay |-> base_delay, value |-> <<>>, error |-> "none"]

\* a retry loop sleeping base_delay before every retry
RequestedFlatDelay(c) ==
    [c EXCEPT !.requests = @ + 1,
              !.waits = IF c.attempt > 0 THEN Append(@, c.base_delay) ELSE @]

\* time.sleep before a retry, then requests.post
Requested(c) ==
    [c EXCEPT !.requests = @ + 1,
              !.waits = IF c.attempt > 0
                        THEN Append(@, c.base_delay * Pow2(c.attempt - 1))
                        ELSE @]

Raised(c, error) == [c EXCEPT !.phase = "raised", !.error = error]
NextAttempt(c) == [c EXCEPT !.attempt = @ + 1]

On429(c) == NextAttempt(c)
On404Retry(c) == NextAttempt(c)
On404(c) == Raised(c, "ValueError")
OnTimeoutStuck(c) == c
OnTimeout(c) == NextAttempt(c)
OnRequestError(c) ==
    IF c.attempt >= c.max_retries - 1 THEN Raised(c, "RequestException")
    ELSE NextAttempt(c)

\* one iteration of the retry loop, from the wait to the handling of the
\* response
Handled(c, kind, content) ==
    LET r == [Requested(c) EXCEPT !.last = kind,
                                   !.oks = IF kind = "ok" THEN @ + 1 ELSE @]
    IN  CASE kind = "ok" -> [r EXCEPT !.phase = "returned", !.value = content]
          [] kind = "r429" -> On429(r)
          [] kind = "r404" -> On404(r)
          [] kind = "timeout" -> OnTimeout(r)
          [] kind = "reqerr" -> OnRequestError(r)
          [] kind = "errbody" -> NextAttempt(r)
          [] kind = "badbody" -> Raised(r, "KeyError")

CCAttempt ==
    /\ cc.phase = "running"
    /\ cc.attempt < cc.max_retries
    /\ \E kind \in ResponseKinds, content \in JudgeResponses :
          cc' = Handled(cc, kind, IF kind = "ok" THEN content ELSE <<>>)

\* the loop ends without a return: raise RuntimeError
CCLoopExit ==
    /\ cc.phase = "running"
    /\ cc.attempt >= cc.max_retries
    /\ cc' = Raised(cc, "RuntimeError")

ClientInit ==
    /\ cc \in {NewCall(mr, bd) : mr \in 0..MAX_RETRIES, bd \in {BASE_DELAY}}
    /\ es = Idle /\ store = Idle /\ jb = Idle /\ sc = Idle /\ cp = Idle
    /\ LaterIdle

ClientAttempt == CCAttempt /\ UNCHANGED <<es, store, jb, sc, cp, later>>
ClientLoopExit == CCLoopExit /\ UNCHANGED <<es, store, jb, sc, cp, later>>

ClientNext == ClientAttempt \/ ClientLoopExit

SpecClient == ClientInit /\ [][ClientNext]_vars

(***************************************************************************)
(* Names: case names and model identifiers are strings of characters.      *)
(***************************************************************************)
Ord(c) ==
    CASE c = " " -> 32 [] c = "/" -> 47 [] c = "0" -> 48 [] c = "1" -> 49
      [] c = "2" -> 50 [] c = "9" -> 57 [] c = ":" -> 58 [] c = "A" -> 65 [] c = "B" -> 66
      [] c = "_" -> 95 [] c = "f" -> 102 [] c = "g" -> 103 [] c = "j" -> 106
      [] c = "k" -> 107 [] c = "m" -> 109 [] c = "n" -> 110 [] c = "x" -> 120

Digits == {"0", "1", "2", "9"}

\* a < b for Python strings
RECURSIVE StrLess(_, _)
StrLess(a, b) ==
    IF b = <<>> THEN FALSE
    ELSE IF a = <<>> THEN TRUE
    ELSE IF Head(a) = Head(b) THEN StrLess(Tail(a), Tail(b))
    ELSE Ord(Head(a)) < Ord(Head(b))

\* s.split(sep)[-1]
RECURSIVE AfterLast(_, _)
AfterLast(s, sep) ==
    IF \E i \in 1..Len(s) : s[i] = sep THEN AfterLast(Tail(s), sep) ELSE s

\* s.split(sep)[0]
RECURSIVE BeforeFirst(_, _)
BeforeFirst(s, sep) ==
    IF s = <<>> \/ Head(s) = sep THEN <<>>
    ELSE <<Head(s)>> \o BeforeFirst(Tail(s), sep)

\* model.split("/")[-1].split(":")[0]
ModelShort(model) == BeforeFirst(AfterLast(model, "/"), ":")

\* get_case_sort_key: re.match(r'^(\d+)\s+(.+)$', case_name)
RECURSIVE LeadingDigits(_)
LeadingDigits(s) ==
    IF s # <<>> /\ Head(s) \in Digits THEN <<Head(s)>> \o LeadingDigits(Tail(s))
    ELSE <<>>

RECURSIVE LeadingSpaces(_)
LeadingSpaces(s) ==
    IF s # <<>> /\ Head(s) = " " THEN 1 + LeadingSpaces(Tail(s)) ELSE 0

RECURSIVE IntOf(_)
IntOf(ds) ==
    IF ds = <<>> THEN 0
    ELSE 10 * IntOf(SubSeq(ds, 1, Len(ds) - 1)) + (Ord(ds[Len(ds)]) - 48)

NON_NUMERIC_KEY == 999999

get_case_sort_key(case_name) ==
    LET ds == LeadingDigits(case_name)
        after == SubSeq(case_name, Len(ds) + 1, Len(case_name))
        sp == LeadingSpaces(after)
        rest == SubSeq(after, sp + 1, Len(after))
    IN  IF ds # <<>> /\ sp >= 1 /\ rest # <<>>
        THEN [number |-> IntOf(ds), name |-> rest]
        ELSE IF ds # <<>> /\ sp >= 2
        THEN [number |-> IntOf(ds), name |-> <<" ">>]
        ELSE [number |-> NON_NUMERIC_KEY, name |-> case_name]

KeyLess(a, b) ==
    \/ a.number < b.number
    \/ a.number = b.number /\ StrLess(a.name, b.name)

CaseLess(a, b) == KeyLess(get_case_sort_key(a), get_case_sort_key(b))

\* sorted(...): a stable insertion sort of the sequence, by the case sort
\* key for case names and by string order for model identifiers
RECURSIVE InsertCase(_, _)
InsertCase(x, sorted) ==
    IF sorted = <<>> THEN <<x>>
    ELSE IF CaseLess(x, Head(sorted)) THEN <<x>> \o sorted
    ELSE <<Head(sorted)>> \o InsertCase(x, Tail(sorted))

\* the keys of the dict left in their insertion order
UnsortedCases(s) == s

RECURSIVE SortedCases(_)
SortedCases(s) ==
    IF s = <<>> THEN <<>>
    ELSE InsertCase(s[Len(s)], SortedCases(SubSeq(s, 1, Len(s) - 1)))

RECURSIVE InsertModel(_, _)
InsertModel(x, sorted) ==
    IF sorted = <<>> THEN <<x>>
    ELSE IF StrLess(x, Head(sorted)) THEN <<x>> \o sorted
    ELSE <<Head(sorted)>> \o InsertModel(x, Tail(sorted))

RECURSIVE SortedModels(_)
SortedModels(s) ==
    IF s = <<>> THEN <<>>
    ELSE InsertModel(s[Len(s)], SortedModels(SubSeq(s, 1, Len(s) - 1)))

(***************************************************************************)
(* evaluate_all_judge over the artifact store                              *)
(***************************************************************************)
CaseTwoB == <<"2", " ", "B">>
CaseTenA == <<"1", "0", " ", "A">>
ModelG == <<"g", "/", "m">>
ModelX == <<"x", "/", "n", ":", "f">>
JudgeModel == <<"j", "/", "k">>

\* ground_truths.keys(), in the order of the dict
GroundTruthCases == <<CaseTenA, CaseTwoB>>
Summarizers == <<ModelX, ModelG>>
Range(s) == {s[i] : i \in 1..Len(s)}
JudgeKeys == {<<c, m>> : c \in Range(GroundTruthCases), m \in Range(Summarizers)}

\* llm_summaries[case][model] of a run: "path", "none" (None: the summary
\* could not be generated) or "absent" (no entry).
FullSummaries == [k \in JudgeKeys |-> "path"]
PartialSummaries ==
    [k \in JudgeKeys |->
        IF k[1] = CaseTwoB THEN "absent"
        ELSE IF k[2] = ModelG THEN "none" ELSE "path"]
SummaryInputs == {FullSummaries, PartialSummaries}

\* output_dir / judge_model_short / f"{case_name}_{summarizer_short}_judge.json"
ResultPath(judge_model, case_name, summarizer_model) ==
    ModelShort(judge_model) \o <<"/">> \o case_name \o <<"_">>
        \o ModelShort(summarizer_model) \o <<"_judge.json">>

PathOf(k) == ResultPath(JudgeModel, k[1], k[2])
JudgePaths == {PathOf(k) : k \in JudgeKeys}

NoData == [result |-> JsonLoads(<<>>), judge_score |-> 0,
           case_name |-> <<>>, summarizer_model |-> <<>>]
AbsentFile == [kind |-> "absent", data |-> NoData]
CorruptFile == [kind |-> "corrupt", data |-> NoData]
JsonFile(data) == [kind |-> "json", data |-> data]
Exists(path) == store[path].kind # "absent"

\* the models of a case that llm_summaries has an entry for, sorted
CaseModels(summaries, case_name) ==
    SortedModels(SelectSeq(Summarizers,
                           LAMBDA m : summaries[<<case_name, m>>] # "absent"))

\* Enter the cases at the head of j.cases until one has a model left to
\* visit: all_results[case_name] = {} for each case entered.
RECURSIVE EnterCases(_)
EnterCases(j) ==
    IF j.models # <<>> \/ j.cases = <<>> THEN j
    ELSE LET c == Head(j.cases)
         IN  EnterCases([j EXCEPT !.cases = Tail(@),
                                  !.case_name = c,
                                  !.models = CaseModels(j.summaries, c),
                                  !.entered = @ \cup {c}])

\* the end of one pass of the inner loop
Continue(j) == EnterCases([j EXCEPT !.models = Tail(@)])

NoKey == <<>>
NewRun(summaries, persisted) ==
    EnterCases([phase |-> "running",
                summaries |-> summaries,
                cases |-> SortedCases(GroundTruthCases),
                case_name |-> <<>>,
                models |-> <<>>,
                entered |-> {},
                all_results |-> [k \in {} |-> NoData],
                error |-> "none",
                last_key |-> NoKey,
                last_step |-> "start",
                persisted |-> persisted])

CurrentKey == <<jb.case_name, Head(jb.models)>>
AtItem == jb.phase = "running" /\ jb.models # <<>>

JudgeInit ==
    /\ store = [p \in JudgePaths |-> AbsentFile]
    /\ jb = [phase |-> "idle", last_step |-> "none",
             persisted |-> [k \in JudgeKeys |-> 0]]
    /\ cc = Idle /\ es = Idle /\ sc = Idle /\ cp = Idle
    /\ LaterIdle

\* a call of evaluate_all_judge
JudgeRunStart ==
    /\ jb.phase \in {"idle", "returned", "raised", "killed"}
    /\ \E summaries \in SummaryInputs : jb' = NewRun(summaries, jb.persisted)
    /\ UNCHANGED <<store, cc, es, sc, cp, later>>

\* if summary_path is None: continue
JudgeSkipNone ==
    /\ AtItem
    /\ jb.summaries[CurrentKey] = "none"
    /\ jb' = [Continue(jb) EXCEPT !.last_key = CurrentKey, !.last_step = "no_summary"]
    /\ UNCHANGED <<store, cc, es, sc, cp, later>>

\* an existing file kept as the result whatever it holds
SkipExistingUnchecked(j, k, file) ==
    [Continue(j) EXCEPT !.all_results = (k :> file.data) @@ @,
                        !.last_key = k, !.last_step = "loaded"]

\* if result_path.exists(): load it, or warn when it cannot be loaded
SkipExisting(j, k, file) ==
    IF file.kind = "json"
    THEN [Continue(j) EXCEPT !.all_results = (k :> file.data) @@ @,
                             !.last_key = k, !.last_step = "loaded"]
    ELSE [Continue(j) EXCEPT !.last_key = k, !.last_step = "load_failed"]

JudgeSkipExisting ==
    /\ AtItem
    /\ jb.summaries[CurrentKey] = "path"
    /\ Exists(PathOf(CurrentKey))
    /\ jb' = SkipExisting(jb, CurrentKey, store[PathOf(CurrentKey)])
    /\ UNCHANGED <<store, cc, es, sc, cp, later>>

JudgeCallAlways ==
    /\ AtItem
    /\ jb.summaries[CurrentKey] = "path"
    /\ jb' = [jb EXCEPT !.phase = "calling", !.last_key = CurrentKey,
                        !.last_step = "called"]
    /\ cc' = NewCall(MAX_RETRIES, BASE_DELAY)
    /\ UNCHANGED <<store, es, sc, cp, later>>

\* evaluator.evaluate_summary(...): the prompt is sent
JudgeCall ==
    /\ AtItem
    /\ jb.summaries[CurrentKey] = "path"
    /\ ~Exists(PathOf(CurrentKey))
    /\ jb' = [jb EXCEPT !.phase = "calling", !.last_key = CurrentKey,
                        !.last_step = "called"]
    /\ cc' = NewCall(MAX_RETRIES, BASE_DELAY)
    /\ UNCHANGED <<store, es, sc, cp, later>>

JudgeAttempt ==
    /\ jb.phase = "calling"
    /\ CCAttempt
    /\ UNCHANGED <<store, jb, es, sc, cp, later>>

JudgeLoopExit ==
    /\ jb.phase = "calling"
    /\ CCLoopExit
    /\ UNCHANGED <<store, jb, es, sc, cp, later>>

\* chat_completion raised: nothing in evaluate_summary or evaluate_all_judge
\* catches it, the run ends with the exception
CallRaised(j, error) ==
    [j EXCEPT !.phase = "raised", !.error = error, !.last_step = "call_failed"]

JudgeCallRaised ==
    /\ jb.phase = "calling"
    /\ cc.phase = "raised"
    /\ jb' = CallRaised(jb, cc.error)
    /\ cc' = Idle
    /\ UNCHANGED <<store, es, sc, cp, later>>

ResultData(out, k) ==
    [result |-> out.result, judge_score |-> out.judge_score,
     case_name |-> k[1], summarizer_model |-> k[2]]

\* chat_completion returned: the rest of evaluate_summary, then the result
\* is kept and written.  The write is either whole, or (interrupted = TRUE)
\* the process ends between write_text's truncating open and its write.
JudgeCallReturned ==
    /\ jb.phase = "calling"
    /\ cc.phase = "returned"
    /\ LET k == CurrentKey
           out == evaluate_summary(cc.value)
       IN  IF out.status = "raised"
           THEN /\ jb' = [jb EXCEPT !.phase = "raised", !.error = out.error,
                                    !.last_step = "score_failed"]
                /\ store' = store
           ELSE \E interrupted \in BOOLEAN :
                  IF interrupted
                  THEN /\ store' = [store EXCEPT ![PathOf(k)] = CorruptFile]
                       /\ jb' = [jb EXCEPT !.phase = "killed",
                                           !.last_step = "write_interrupted"]
                  ELSE /\ store' = [store EXCEPT ![PathOf(k)] = JsonFile(ResultData(out, k))]
                       /\ jb' = [Continue([jb EXCEPT !.phase = "running"]) EXCEPT
                                    !.all_results = (k :> ResultData(out, k)) @@ @,
                                    !.persisted[k] = @ + 1,
                                    !.last_step = "written"]
    /\ cc' = Idle
    /\ UNCHANGED <<es, sc, cp, later>>

\* the loops are over: _run_summary.json is written and all_results returned
JudgeReturn ==
    /\ jb.phase = "running"
    /\ jb.models = <<>>
    /\ jb' = [jb EXCEPT !.phase = "returned", !.last_step = "returned"]
    /\ UNCHANGED <<store, cc, es, sc, cp, later>>

JudgeNext ==
    \/ JudgeRunStart
    \/ JudgeSkipNone
    \/ JudgeSkipExisting
    \/ JudgeCall
    \/ JudgeAttempt
    \/ JudgeLoopExit
    \/ JudgeCallRaised
    \/ JudgeCallReturned
    \/ JudgeReturn

SpecJudge == JudgeInit /\ [][JudgeNext]_vars

\* evaluate_all_judge run again and again by its caller: the process always
\* takes the step it is at, and a run that returned, raised or was killed is
\* followed by another run
\* What a chat_completion call ends with: a returned content, or one of the
\* exceptions of its retry loop.
CallErrors == {"ValueError", "RuntimeError", "RequestException", "KeyError"}
\* a response with two numeric scores and one without scores
RerunResponses == {TextVerdict, TextNoScores}
CallOutcomes(c) ==
    {[c EXCEPT !.phase = "returned", !.last = "ok", !.value = content] :
        content \in RerunResponses}
    \cup {Raised(c, error) : error \in CallErrors}

\* the whole of chat_completion in one step
JudgeCallEnds ==
    /\ jb.phase = "calling"
    /\ cc.phase = "running"
    /\ cc' \in CallOutcomes(cc)
    /\ UNCHANGED <<store, jb, es, sc, cp, later>>

RerunNext ==
    \/ JudgeRunStart
    \/ JudgeSkipNone
    \/ JudgeSkipExisting
    \/ JudgeCall
    \/ JudgeCallEnds
    \/ JudgeCallRaised
    \/ JudgeCallReturned
    \/ JudgeReturn

SpecJudgeFair == JudgeInit /\ [][RerunNext]_vars /\ WF_vars(RerunNext)

(***************************************************************************)
(* compute_composite_score.  A pillar result is a dict, here a function    *)
(* from its field names to hundredths; weights are hundredths too.         *)
(***************************************************************************)
WEIGHT_NLI == 35
WEIGHT_JUDGE == 40
WEIGHT_COVERAGE == 25
DefaultWeights == [nli |-> WEIGHT_NLI, judge |-> WEIGHT_JUDGE, coverage |-> WEIGHT_COVERAGE]

EmptyDict == [f \in {} |-> 0]

\* d.get(key, default)
DictGetOne(d, key, default) == IF key \in DOMAIN d THEN d[key] ELSE 100
DictGet(d, key, default) == IF key \in DOMAIN d THEN d[key] ELSE default

compute_composite_score(nli_result, judge_result, coverage_result, w) ==
    LET nli_score == DictGet(nli_result, "nli_score", 0)
        judge_score == DictGet(judge_result, "judge_score", 0)
        coverage_score == DictGet(coverage_result, "coverage_score", 0)
    IN  [nli_score |-> nli_score,
         judge_score |-> judge_score,
         coverage_score |-> coverage_score,
         weights |-> w,
         composite_score |-> w.nli * nli_score + w.judge * judge_score
                             + w.coverage * coverage_score]

ScoreValues == {0, 60, 80, 100}
NliResults == {EmptyDict} \cup {[nli_score |-> v] : v \in ScoreValues}
JudgeResults == {EmptyDict} \cup {[judge_score |-> v] : v \in ScoreValues}
CoverageResults == {EmptyDict} \cup {[coverage_score |-> v] : v \in ScoreValues}
WeightInputs == {DefaultWeights, [nli |-> 50, judge |-> 30, coverage |-> 20]}

NoScore == [status |-> "none"]

ScoreInit ==
    /\ sc \in {[nli |-> a, judge |-> b, coverage |-> c, weights |-> w, out |-> NoScore] :
                  a \in NliResults, b \in JudgeResults, c \in CoverageResults,
                  w \in WeightInputs}
    /\ es = Idle /\ cc = Idle /\ store = Idle /\ jb = Idle /\ cp = Idle
    /\ LaterIdle

ComputeScore ==
    /\ sc.out = NoScore
    /\ sc' = [sc EXCEPT !.out =
                 [status |-> "returned",
                  value |-> compute_composite_score(sc.nli, sc.judge, sc.coverage,
                                                    sc.weights)]]
    /\ UNCHANGED <<es, cc, store, jb, cp, later>>

ScoreNext == ComputeScore

SpecScore == ScoreInit /\ [][ScoreNext]_vars

(***************************************************************************)
(* compute_all_composite_scores and pairwise_significance_test.            *)
(*                                                                         *)
(* A pillar store {case: {model: result}} is a function from the           *)
(* (case, model) keys it holds to their results; the NLI store also has    *)
(* the order its keys are iterated in.  The random generator's draws are   *)
(* any index vectors.  Means are kept as sums: a bootstrap difference is   *)
(* n times the difference of the two resampled means, and a percentile is  *)
(* 40 times numpy's linear interpolation between order statistics.         *)
(***************************************************************************)
NBoot == 2

CaseThreeC == <<"3", " ", "C">>
CompositeCases == <<CaseTenA, CaseTwoB, CaseThreeC>>
CompositeModels == <<ModelX, ModelG>>
CompositeOrder ==
    <<<<CaseTenA, ModelX>>, <<CaseTenA, ModelG>>,
      <<CaseTwoB, ModelX>>, <<CaseTwoB, ModelG>>,
      <<CaseThreeC, ModelX>>, <<CaseThreeC, ModelG>>>>
CompositeKeys == Range(CompositeOrder)

\* the NLI stores: any subset of the keys, each with nli_score 0 or 1
NliStores ==
    UNION {[ks -> {[nli_score |-> 0], [nli_score |-> 100]}] : ks \in SUBSET CompositeKeys}

JudgeStoreFull == [k \in CompositeKeys |-> [judge_score |-> 60]]
JudgeStorePartial ==
    [k \in CompositeKeys \ {<<CaseTenA, ModelG>>} |->
        IF k = <<CaseTwoB, ModelX>> THEN EmptyDict ELSE [judge_score |-> 90]]
CoverageStoreFull == [k \in CompositeKeys |-> [coverage_score |-> 100]]
CoverageStorePartial ==
    [k \in {<<CaseTenA, ModelX>>, <<CaseTenA, ModelG>>} |-> [coverage_score |-> 40]]
PillarStores ==
    {[judge |-> JudgeStoreFull, coverage |-> CoverageStoreFull],
     [judge |-> JudgeStorePartial, coverage |-> CoverageStoreFull],
     [judge |-> JudgeStoreFull, coverage |-> CoverageStorePartial]}

\* results.get(case_name, {}).get(model, {})
StoreGet(results, k) == IF k \in DOMAIN results THEN results[k] ELSE EmptyDict

\* a quotient kept as numerator and denominator
Ratio(num, den) == [num |-> num, den |-> den]

RECURSIVE SumSeq(_)
SumSeq(s) == IF s = <<>> THEN 0 ELSE Head(s) + SumSeq(Tail(s))

\* for case_name in nli_results.keys(): for model in nli_results[case_name]:
\* the keys visited, in order
VisitedKeys(nli) == SelectSeq(CompositeOrder, LAMBDA k : k \in DOMAIN nli)

\* all_scores: the composite of every visited key
PerCase(nli, judge, coverage, w) ==
    [k \in Range(VisitedKeys(nli)) |->
        compute_composite_score(StoreGet(nli, k), StoreGet(judge, k),
                                StoreGet(coverage, k), w)]

\* model_aggregates[model]["composite_scores"], with the case each score
\* comes from (the code keeps the scores only)
ModelEntries(visited, model) == SelectSeq(visited, LAMBDA k : k[2] = model)
CompositeList(per_case, visited, model) ==
    [i \in 1..Len(ModelEntries(visited, model)) |->
        per_case[ModelEntries(visited, model)[i]].composite_score]
CaseList(visited, model) ==
    [i \in 1..Len(ModelEntries(visited, model)) |-> ModelEntries(visited, model)[i][1]]

\* the models in the order model_aggregates first meets them
RECURSIVE FirstSeen(_)
FirstSeen(visited) ==
    IF visited = <<>> THEN <<>>
    ELSE LET before == FirstSeen(SubSeq(visited, 1, Len(visited) - 1))
             m == visited[Len(visited)][2]
         IN  IF m \in Range(before) THEN before ELSE Append(before, m)

BestModelLast(order, lists) ==
    IF order = <<>> THEN <<>>
    ELSE order[Max({i \in 1..Len(order) :
                      \A j \in 1..Len(order) :
                          SumSeq(lists[order[j]]) * Len(lists[order[i]])
                              <= SumSeq(lists[order[i]]) * Len(lists[order[j]])})]

\* max(model_averages.keys(), key=avg_composite_score): the first model no
\* other model's average exceeds; averages a/n and b/m compare as a*m, b*n
BestModel(order, lists) ==
    IF order = <<>> THEN <<>>
    ELSE order[Min({i \in 1..Len(order) :
                      \A j \in 1..Len(order) :
                          SumSeq(lists[order[j]]) * Len(lists[order[i]])
                              <= SumSeq(lists[order[i]]) * Len(lists[order[j]])})]

\* model_averages.get(best_model, {}).get("avg_composite_score", 0), the
\* average as the pair (sum, n)
BestAvgScore(best_model, lists) ==
    IF best_model \in DOMAIN lists
    THEN Ratio(SumSeq(lists[best_model]), Len(lists[best_model]))
    ELSE Ratio(0, 1)

\* itertools.combinations(sorted(model_scores.keys()), 2)
RECURSIVE Combinations(_)
Combinations(models) ==
    IF Len(models) < 2 THEN <<>>
    ELSE [i \in 1..(Len(models) - 1) |-> <<models[1], models[i + 1]>>]
         \o Combinations(Tail(models))

\* scores[idx].sum()
Resampled(scores, idx) == SumSeq([i \in 1..Len(idx) |-> scores[idx[i]]])

\* n * (scores_1[idx].mean() - scores_2[idx].mean())
BootDiff(scores_1, scores_2, idx) == Resampled(scores_1, idx) - Resampled(scores_2, idx)

RECURSIVE InsertInt(_, _)
InsertInt(x, sorted) ==
    IF sorted = <<>> THEN <<x>>
    ELSE IF x < Head(sorted) THEN <<x>> \o sorted
    ELSE <<Head(sorted)>> \o InsertInt(x, Tail(sorted))

RECURSIVE SortInts(_)
SortInts(s) == IF s = <<>> THEN <<>> ELSE InsertInt(Head(s), SortInts(Tail(s)))

\* 40 * np.percentile(values, q40 * 2.5)
Percentile40(values, q40) ==
    LET a == SortInts(values)
        pos == q40 * (Len(a) - 1)
        lo == pos \div 40
        r == pos % 40
    IN  IF r = 0 THEN 40 * a[lo + 1]
        ELSE (40 - r) * a[lo + 1] + r * a[lo + 2]

IsSignificantInclusive(ci_lower, ci_upper) == ci_lower >= 0 \/ ci_upper <= 0
IsSignificant(ci_lower, ci_upper) == ci_lower > 0 \/ ci_upper < 0

NoPair ==
    [m1 |-> <<>>, m2 |-> <<>>, n |-> 0, scores_1 |-> <<>>, scores_2 |-> <<>>,
     cases_1 |-> <<>>, cases_2 |-> <<>>, observed_diff |-> 0, boot_diffs |-> <<>>]

CompositeInit ==
    /\ cp \in {[phase |-> "input", nli |-> n, judge |-> ps.judge, coverage |-> ps.coverage] :
                  n \in NliStores, ps \in PillarStores}
    /\ es = Idle /\ cc = Idle /\ store = Idle /\ jb = Idle /\ sc = Idle
    /\ LaterIdle

\* compute_all_composite_scores up to the call of pairwise_significance_test
ComputeAll ==
    /\ cp.phase = "input"
    /\ LET visited == VisitedKeys(cp.nli)
           per_case == PerCase(cp.nli, cp.judge, cp.coverage, DefaultWeights)
           order == FirstSeen(visited)
           lists == [m \in Range(order) |-> CompositeList(per_case, visited, m)]
       IN  cp' = [phase |-> "pairs",
                  nli |-> cp.nli, judge |-> cp.judge, coverage |-> cp.coverage,
                  per_case |-> per_case,
                  model_order |-> order,
                  composite_scores |-> lists,
                  score_cases |-> [m \in Range(order) |-> CaseList(visited, m)],
                  best_model |-> BestModel(order, lists),
                  best_avg_score |-> BestAvgScore(BestModel(order, lists), lists),
                  pairs |-> Combinations(SortedModels(order)),
                  pair |-> NoPair,
                  significance |-> <<>>]
    /\ UNCHANGED <<es, cc, store, jb, sc, later>>

\* the head of one pass of `for m1, m2 in combinations(models, 2)`
StartPair(c) ==
    LET m1 == Head(c.pairs)[1]
        m2 == Head(c.pairs)[2]
        l1 == c.composite_scores[m1]
        l2 == c.composite_scores[m2]
        n == IF Len(l1) < Len(l2) THEN Len(l1) ELSE Len(l2)
    IN  IF n < 2 THEN [c EXCEPT !.pairs = Tail(@)]
        ELSE [c EXCEPT !.phase = "bootstrap",
                       !.pairs = Tail(@),
                       !.pair = [m1 |-> m1, m2 |-> m2, n |-> n,
                                 scores_1 |-> SubSeq(l1, 1, n),
                                 scores_2 |-> SubSeq(l2, 1, n),
                                 cases_1 |-> SubSeq(c.score_cases[m1], 1, n),
                                 cases_2 |-> SubSeq(c.score_cases[m2], 1, n),
                                 observed_diff |-> SumSeq(SubSeq(l1, 1, n))
                                                   - SumSeq(SubSeq(l2, 1, n)),
                                 boot_diffs |-> <<>>]]

PairStart ==
    /\ cp.phase = "pairs"
    /\ cp.pairs # <<>>
    /\ cp' = StartPair(cp)
    /\ UNCHANGED <<es, cc, store, jb, sc, later>>

\* one pass of `for _ in range(1000)`: idx = rng.choice(n, size=n)
BootstrapDraw ==
    /\ cp.phase = "bootstrap"
    /\ Len(cp.pair.boot_diffs) < NBoot
    /\ \E idx \in [1..cp.pair.n -> 1..cp.pair.n] :
          cp' = [cp EXCEPT !.pair.boot_diffs =
                    Append(@, BootDiff(cp.pair.scores_1, cp.pair.scores_2, idx))]
    /\ UNCHANGED <<es, cc, store, jb, sc, later>>

\* m1_short if observed_diff > 0 else m2_short
WinnerFirst(observed_diff, m1, m2) == ModelShort(m1)
Winner(observed_diff, m1, m2) ==
    IF observed_diff > 0 THEN ModelShort(m1) ELSE ModelShort(m2)

\* after the bootstrap loop: the interval, the verdict, results[pair_key]
PairResult(pair) ==
    LET ci_lower == Percentile40(pair.boot_diffs, 1)
        ci_upper == Percentile40(pair.boot_diffs, 39)
    IN  [model_a |-> pair.m1, model_b |-> pair.m2,
         mean_diff |-> pair.observed_diff,
         ci_95_lower |-> ci_lower, ci_95_upper |-> ci_upper,
         significant |-> IsSignificant(ci_lower, ci_upper),
         winner |-> Winner(pair.observed_diff, pair.m1, pair.m2)]

PairEnd ==
    /\ cp.phase = "bootstrap"
    /\ Len(cp.pair.boot_diffs) = NBoot
    /\ cp' = [cp EXCEPT !.phase = "pairs",
                        !.significance = Append(@, PairResult(cp.pair))]
    /\ UNCHANGED <<es, cc, store, jb, sc, later>>

\* no pair is left: the result dict is returned
CompositeReturn ==
    /\ cp.phase = "pairs"
    /\ cp.pairs = <<>>
    /\ cp' = [cp EXCEPT !.phase = "returned"]
    /\ UNCHANGED <<es, cc, store, jb, sc, later>>

CompositeNext ==
    \/ ComputeAll
    \/ PairStart
    \/ BootstrapDraw
    \/ PairEnd
    \/ CompositeReturn

SpecComposite == CompositeInit /\ [][CompositeNext]_vars

(***************************************************************************)
(* The pipeline of main.py around the judge pillar: evaluate_all_judge is  *)
(* run, possibly again after a run that ended early, and what it returns   *)
(* is scored by compute_all_composite_scores together with an NLI and a    *)
(* coverage result for every key.                                          *)
(***************************************************************************)
\* the returned results as the judge store of the scorer: judge_score is
\* (factual_accuracy + completeness) / 10, in hundredths
JudgeStoreOf(all_results) ==
    [k \in DOMAIN all_results |-> [judge_score |-> 10 * all_results[k].judge_score]]

PipelineNli == {[k \in JudgeKeys |-> [nli_score |-> v]] : v \in {0, 100}}
PipelineCoverage == [k \in JudgeKeys |-> [coverage_score |-> 80]]

\* compute_all_composite_scores(nli_results, judge_results, coverage_results)
PipelineComposite ==
    /\ jb.phase = "returned"
    /\ \E nli \in PipelineNli :
          cp' = [phase |-> "scored",
                 judge |-> JudgeStoreOf(jb.all_results),
                 per_case |-> PerCase(nli, JudgeStoreOf(jb.all_results),
                                      PipelineCoverage, DefaultWeights)]
    /\ UNCHANGED <<store, cc, jb, es, sc, later>>

PipelineNext == RerunNext \/ PipelineComposite

SpecPipeline == JudgeInit /\ [][PipelineNext]_vars

(***************************************************************************)
(* bootstrap_composite_ci.  Scores are integers in units of 0.00001, so    *)
(* that rounding to 4 decimals is rounding to a multiple of 10.  The mean  *)
(* is kept as the pair (sum, n); a resampled mean as its sum (n times the  *)
(* mean); a percentile as 40 times numpy's interpolated value.             *)
(***************************************************************************)
MaxScores == 3

BootScoreValues == {12, 20, 36}
BootScoreLists == {s \in SeqsUpTo(BootScoreValues, MaxScores) : Len(s) >= 1}

\* round(num / den, 4) in units of 0.00001: the nearest multiple of 10,
\* the even one of the two when num / den lies halfway (num >= 0, den > 0)
Round4(num, den) ==
    LET tens == (2 * num + 10 * den) \div (20 * den)
        halfway == (2 * num + 10 * den) % (20 * den) = 0
    IN  IF halfway /\ tens % 2 = 1 THEN 10 * (tens - 1) ELSE 10 * tens

\* the largest r in lo..hi with r * r <= x  (lo * lo <= x)
RECURSIVE IsqrtIn(_, _, _)
IsqrtIn(x, lo, hi) ==
    IF lo >= hi THEN lo
    ELSE LET mid == (lo + hi + 1) \div 2
         IN  IF mid * mid <= x THEN IsqrtIn(x, mid, hi) ELSE IsqrtIn(x, lo, mid - 1)

\* round(float(np.std(boot_means)), 4): boot_sums are n times the means;
\* the variance is (B * sum of squares - square of sum) / (B * n)^2
StdError4(boot_sums, n) ==
    LET B == Len(boot_sums)
        squares == SumSeq([i \in 1..B |-> boot_sums[i] * boot_sums[i]])
        total == SumSeq(boot_sums)
        v == B * squares - total * total
    IN  Round4(IsqrtIn(v, 0, v), B * n)

NoInterval == [none |-> TRUE, value |-> 0]
Rounded(x) == [none |-> FALSE, value |-> x]

\* the dict bootstrap_composite_ci returns
bootstrap_composite_ci(scores, boot_sums) ==
    LET n == Len(scores)
        mean == [sum |-> SumSeq(scores), n |-> n]
    IN  IF n < 2
        THEN [mean |-> mean, ci_lower |-> NoInterval, ci_upper |-> NoInterval,
              std_error |-> NoInterval]
        ELSE [mean |-> mean,
              ci_lower |-> Rounded(Round4(Percentile40(boot_sums, 1), 40 * n)),
              ci_upper |-> Rounded(Round4(Percentile40(boot_sums, 39), 40 * n)),
              std_error |-> Rounded(StdError4(boot_sums, n))]

NoCiResult == [status |-> "none"]

BootstrapInit ==
    /\ bs \in {[scores |-> s, boot_sums |-> <<>>, out |-> NoCiResult] :
                  s \in BootScoreLists}
    /\ es = Idle /\ cc = Idle /\ store = Idle /\ jb = Idle /\ sc = Idle /\ cp = Idle
    /\ ExtraIdle
    /\ nl = Idle /\ cv = Idle /\ pk = Idle /\ pb = Idle /\ lg = Idle /\ ld = Idle

\* one pass of `for _ in range(n_bootstrap)`: idx = rng.choice(n, size=n)
BootstrapResample ==
    /\ bs.out = NoCiResult
    /\ Len(bs.scores) >= 2
    /\ Len(bs.boot_sums) < NBoot
    /\ \E idx \in [1..Len(bs.scores) -> 1..Len(bs.scores)] :
          bs' = [bs EXCEPT !.boot_sums = Append(@, Resampled(bs.scores, idx))]
    /\ UNCHANGED <<core, extra, nl, cv, pk, pb, lg, ld>>

\* the return: at once for n < 2, after the loop otherwise
BootstrapReturn ==
    /\ bs.out = NoCiResult
    /\ Len(bs.scores) < 2 \/ Len(bs.boot_sums) = NBoot
    /\ bs' = [bs EXCEPT !.out =
                 [status |-> "returned",
                  value |-> bootstrap_composite_ci(bs.scores, bs.boot_sums)]]
    /\ UNCHANGED <<core, extra, nl, cv, pk, pb, lg, ld>>

BootstrapNext == BootstrapResample \/ BootstrapReturn

SpecBootstrap == BootstrapInit /\ [][BootstrapNext]_vars

(***************************************************************************)
(* NLIEvaluator.evaluate_summary.  A text is the list of the sentences     *)
(* nltk.sent_tokenize splits it into; a sentence is its stripped text and  *)
(* the length of that text.  classify_pair runs the NLI model, whose label *)
(* is any of LABELS.  calls is the history of the classify_pair calls.     *)
(***************************************************************************)
MaxSentences == 2
MIN_SENTENCE_LEN == 10

LABELS == {"contradiction", "neutral", "entailment"}

Sentence(text, len) == [text |-> text, len |-> len]
ReferenceSentences == {Sentence("p", 9), Sentence("q", 10), Sentence("r", 11)}
CandidateSentences == {Sentence("s", 9), Sentence("t", 11)}
ReferenceTexts == SeqsUpTo(ReferenceSentences, MaxSentences)
CandidateTexts == SeqsUpTo(CandidateSentences, MaxSentences)

\* `if len(gt_sent) < 10: continue`
NliQualifies(gt_sent) == gt_sent.len >= MIN_SENTENCE_LEN

\* the arguments of self.classify_pair(premise=..., hypothesis=...)
ClassifyArgsSwapped(sum_sent, gt_sent) == [premise |-> gt_sent, hypothesis |-> sum_sent]
ClassifyArgs(sum_sent, gt_sent) == [premise |-> sum_sent, hypothesis |-> gt_sent]

\* the statistics after the loop and the returned dict
NliResult(results, contradicted) ==
    LET total_gt == Len(results)
        rate == IF total_gt > 0 THEN Ratio(contradicted, total_gt) ELSE Ratio(0, 1)
    IN  [sentence_results |-> results,
         counts |-> [contradiction |-> contradicted],
         total_sentences |-> total_gt,
         contradiction_rate |-> rate,
         nli_score |-> Ratio(rate.den - rate.num, rate.den)]

NoNliResult == [status |-> "none"]

NliInit ==
    /\ nl \in {[gt |-> g, summary |-> c, i |-> 1, j |-> 1, results |-> <<>>,
                 contradicted |-> 0, calls |-> <<>>, out |-> NoNliResult] :
                    g \in ReferenceTexts, c \in CandidateTexts}
    /\ es = Idle /\ cc = Idle /\ store = Idle /\ jb = Idle /\ sc = Idle /\ cp = Idle
    /\ ExtraIdle
    /\ bs = Idle /\ cv = Idle /\ pk = Idle /\ pb = Idle /\ lg = Idle /\ ld = Idle

NliAtSentence == nl.out = NoNliResult /\ nl.i <= Len(nl.gt)

\* a reference sentence shorter than 10 characters is passed over
NliSkipShort ==
    /\ NliAtSentence
    /\ ~NliQualifies(nl.gt[nl.i])
    /\ nl' = [nl EXCEPT !.i = @ + 1]
    /\ UNCHANGED <<core, extra, bs, cv, pk, pb, lg, ld>>

\* one pass of `for sum_sent in summary_sentences`
NliClassify ==
    /\ NliAtSentence
    /\ NliQualifies(nl.gt[nl.i])
    /\ nl.j <= Len(nl.summary)
    /\ \E label \in LABELS :
          LET args == ClassifyArgs(nl.summary[nl.j], nl.gt[nl.i])
              call == [premise |-> args.premise, hypothesis |-> args.hypothesis,
                       gi |-> nl.i, sj |-> nl.j, label |-> label]
          IN  IF label = "contradiction"
              THEN nl' = [nl EXCEPT
                            !.calls = Append(@, call),
                            !.contradicted = @ + 1,
                            !.results = Append(@, [sentence |-> nl.gt[nl.i],
                                                   gi |-> nl.i,
                                                   label |-> "contradiction",
                                                   probabilities |-> "of the match"]),
                            !.i = @ + 1,
                            !.j = 1]
              ELSE nl' = [nl EXCEPT !.calls = Append(@, call), !.j = @ + 1]
    /\ UNCHANGED <<core, extra, bs, cv, pk, pb, lg, ld>>

\* no candidate sentence is left and none contradicted
NliSentenceDone ==
    /\ NliAtSentence
    /\ NliQualifies(nl.gt[nl.i])
    /\ nl.j > Len(nl.summary)
    /\ nl' = [nl EXCEPT !.results = Append(@, [sentence |-> nl.gt[nl.i],
                                               gi |-> nl.i,
                                               label |-> "neutral/entailment",
                                               probabilities |-> "None"]),
                        !.i = @ + 1,
                        !.j = 1]
    /\ UNCHANGED <<core, extra, bs, cv, pk, pb, lg, ld>>

NliReturn ==
    /\ nl.out = NoNliResult
    /\ nl.i > Len(nl.gt)
    /\ nl' = [nl EXCEPT !.out = [status |-> "returned",
                                 value |-> NliResult(nl.results, nl.contradicted)]]
    /\ UNCHANGED <<core, extra, bs, cv, pk, pb, lg, ld>>

NliNext == NliSkipShort \/ NliClassify \/ NliSentenceDone \/ NliReturn

SpecNli == NliInit /\ [][NliNext]_vars

(***************************************************************************)
(* Artifact paths.  A pillar-result key is the pillar, the case, the       *)
(* summarizer model id and, for a judge result, the judge model id.        *)
(***************************************************************************)
ModelXPlain == <<"x", "/", "n">>
JudgeOther == <<"q", "/", "k", ":", "v">>

NoJudge == <<>>
PillarKey(pillar, judge_model, case_name, model) ==
    [pillar |-> pillar, judge_model |-> judge_model, case_name |-> case_name,
     model |-> model]

PathCases == {CaseTwoB, CaseTenA}
PathModels == {ModelG, ModelX, ModelXPlain}
PathKeys ==
    {PillarKey("judge", j, c, m) : j \in {JudgeModel, JudgeOther}, c \in PathCases,
                                   m \in PathModels}
    \cup {PillarKey(p, NoJudge, c, m) : p \in {"nli", "coverage"}, c \in PathCases,
                                        m \in PathModels}

\* output_dir / f"{case_name}_{model_short}_nli.json", and the same with
\* _coverage.json; each pillar has its own output directory
LocalResultPath(pillar, case_name, model) ==
    case_name \o <<"_">> \o ModelShort(model) \o <<"_", pillar, ".json">>

ArtifactPath(k) ==
    [dir |-> k.pillar,
     file |-> IF k.pillar = "judge"
              THEN ResultPath(k.judge_model, k.case_name, k.model)
              ELSE LocalResultPath(k.pillar, k.case_name, k.model)]

NoPath == [dir |-> "", file |-> <<>>]

PathsInit ==
    /\ pk \in {[a |-> a, b |-> b, path_a |-> NoPath, path_b |-> NoPath] :
                  a \in PathKeys, b \in PathKeys}
    /\ es = Idle /\ cc = Idle /\ store = Idle /\ jb = Idle /\ sc = Idle /\ cp = Idle
    /\ ExtraIdle
    /\ bs = Idle /\ nl = Idle /\ cv = Idle /\ pb = Idle /\ lg = Idle /\ ld = Idle

\* the batch evaluators form the result path of each of the two keys
ComputePaths ==
    /\ pk.path_a = NoPath
    /\ pk' = [pk EXCEPT !.path_a = ArtifactPath(pk.a), !.path_b = ArtifactPath(pk.b)]
    /\ UNCHANGED <<core, extra, bs, nl, cv, pb, lg, ld>>

PathsNext == ComputePaths

SpecPaths == PathsInit /\ [][PathsNext]_vars

(***************************************************************************)
(* evaluate_all_nli and evaluate_all_coverage: the same loop over the      *)
(* pillar's own output directory.  The result of an evaluation is the      *)
(* pillar score, in hundredths; writes and evaluations count what the runs *)
(* did for each key.                                                       *)
(***************************************************************************)
MaxRuns == 2

LocalPillars == {"nli", "coverage"}
LocalScores == {0, 100}

LocalResult(pillar, score) ==
    IF pillar = "nli" THEN [nli_score |-> score] ELSE [coverage_score |-> score]

\* for case_name in ground_truths: for model in llm_summaries.get(case_name, {})
BatchItems(summaries) ==
    SelectSeq(<<<<CaseTenA, ModelX>>, <<CaseTenA, ModelG>>,
                <<CaseTwoB, ModelX>>, <<CaseTwoB, ModelG>>>>,
              LAMBDA k : summaries[k] # "absent")

\* files maps a key to the file at its result_path (the summarizers of
\* the batch have different short names)
NoFile == [kind |-> "absent"]
ResultFile(data) == [kind |-> "json", data |-> data]

BatchInit ==
    /\ pb \in {[phase |-> "idle", pillar |-> p, runs |-> 0,
                 files |-> [k \in JudgeKeys |-> NoFile],
                 writes |-> [k \in JudgeKeys |-> 0],
                 evaluations |-> [k \in JudgeKeys |-> 0]] : p \in LocalPillars}
    /\ es = Idle /\ cc = Idle /\ store = Idle /\ jb = Idle /\ sc = Idle /\ cp = Idle
    /\ ExtraIdle
    /\ bs = Idle /\ nl = Idle /\ cv = Idle /\ pk = Idle /\ lg = Idle /\ ld = Idle

\* a call of evaluate_all_nli or evaluate_all_coverage
BatchRunStart ==
    /\ pb.phase \in {"idle", "returned"}
    /\ pb.runs < MaxRuns
    /\ \E summaries \in SummaryInputs :
          pb' = [phase |-> "running", pillar |-> pb.pillar, runs |-> pb.runs + 1,
                 files |-> pb.files, writes |-> pb.writes,
                 evaluations |-> pb.evaluations,
                 summaries |-> summaries,
                 items |-> BatchItems(summaries),
                 all_results |-> [k \in {} |-> LocalResult(pb.pillar, 0)]]
    /\ UNCHANGED <<core, extra, bs, nl, cv, pk, lg, ld>>

BatchAtItem == pb.phase = "running" /\ pb.items # <<>>

\* if summary_path is None: continue
BatchSkipNone ==
    /\ BatchAtItem
    /\ pb.summaries[Head(pb.items)] = "none"
    /\ pb' = [pb EXCEPT !.items = Tail(@)]
    /\ UNCHANGED <<core, extra, bs, nl, cv, pk, lg, ld>>

\* the summary is read and evaluated, the result kept and written
BatchEvaluate ==
    /\ BatchAtItem
    /\ pb.summaries[Head(pb.items)] = "path"
    /\ \E score \in LocalScores :
          LET k == Head(pb.items)
              result == LocalResult(pb.pillar, score)
          IN  pb' = [pb EXCEPT
                       !.items = Tail(@),
                       !.evaluations[k] = @ + 1,
                       !.all_results = [x \in DOMAIN @ \cup {k} |->
                                           IF x = k THEN result ELSE @[x]],
                       !.files[k] = ResultFile(result),
                       !.writes[k] = @ + 1]
    /\ UNCHANGED <<core, extra, bs, nl, cv, pk, lg, ld>>

BatchReturn ==
    /\ pb.phase = "running"
    /\ pb.items = <<>>
    /\ pb' = [pb EXCEPT !.phase = "returned"]
    /\ UNCHANGED <<core, extra, bs, nl, cv, pk, lg, ld>>

BatchNext == BatchRunStart \/ BatchSkipNone \/ BatchEvaluate \/ BatchReturn

SpecBatch == BatchInit /\ [][BatchNext]_vars

(***************************************************************************)
(* update_evaluation_log_csv.  The log file is absent or a list of CSV     *)
(* records: the header or a row with the run it was written by and its     *)
(* (case, model).  The values written come from compute_all_composite_     *)
(* scores and evaluate_all_judge, for which no statement of the body       *)
(* raises.  before, created_by and entries are the history of the calls.   *)
(***************************************************************************)
MaxCalls == 3

HeaderRecord(run) == [kind |-> "header", run |-> run, key |-> <<>>]
RowRecord(run, key) == [kind |-> "row", run |-> run, key |-> key]

\* composite_scores["per_case"] of a run, as the (case, model) entries in
\* the order the two loops meet them
LogInputs ==
    {<<>>,
     <<<<CaseTenA, ModelX>>>>,
     <<<<CaseTwoB, ModelX>>, <<CaseTwoB, ModelG>>>>,
     <<<<CaseTenA, ModelX>>, <<CaseTenA, ModelG>>, <<CaseTwoB, ModelG>>>>}

AbsentLog == [exists |-> FALSE, records |-> <<>>]

\* open(output_path, mode="a"): the file is created when it is absent and
\* keeps its content otherwise
OpenTruncate(file) == [exists |-> TRUE, records |-> <<>>]
OpenAppend(file) == [exists |-> TRUE, records |-> file.records]

LogInit ==
    /\ lg = [phase |-> "idle", file |-> AbsentLog, calls |-> 0, created_by |-> 0,
             before |-> <<>>, entries |-> <<>>, todo |-> <<>>]
    /\ es = Idle /\ cc = Idle /\ store = Idle /\ jb = Idle /\ sc = Idle /\ cp = Idle
    /\ ExtraIdle
    /\ bs = Idle /\ nl = Idle /\ cv = Idle /\ pk = Idle /\ pb = Idle /\ ld = Idle

\* the call up to the loops: file_exists, open, writeheader
LogOpen ==
    /\ lg.phase = "idle"
    /\ lg.calls < MaxCalls
    /\ \E per_case \in LogInputs :
          LET file_exists == lg.file.exists
              run == lg.calls + 1
              opened == OpenAppend(lg.file)
          IN  lg' = [phase |-> "writing",
                     file |-> IF file_exists THEN opened
                              ELSE [opened EXCEPT !.records = Append(@, HeaderRecord(run))],
                     calls |-> run,
                     created_by |-> IF file_exists THEN lg.created_by ELSE run,
                     before |-> lg.file.records,
                     entries |-> per_case,
                     todo |-> per_case]
    /\ UNCHANGED <<core, extra, bs, nl, cv, pk, pb, ld>>

\* writer.writerow for one (case, model)
LogRow ==
    /\ lg.phase = "writing"
    /\ lg.todo # <<>>
    /\ lg' = [lg EXCEPT !.file.records = Append(@, RowRecord(lg.calls, Head(lg.todo))),
                        !.todo = Tail(@)]
    /\ UNCHANGED <<core, extra, bs, nl, cv, pk, pb, ld>>

\* the file is closed and output_path returned
LogReturn ==
    /\ lg.phase = "writing"
    /\ lg.todo = <<>>
    /\ lg' = [lg EXCEPT !.phase = "idle"]
    /\ UNCHANGED <<core, extra, bs, nl, cv, pk, pb, ld>>

LogNext == LogOpen \/ LogRow \/ LogReturn

SpecLog == LogInit /\ [][LogNext]_vars

(***************************************************************************)
(* The analyses that read the persisted judge artifacts: load_judge_scores *)
(* (meta_evaluator.py), extract_and_classify_errors (error_taxonomy.py),   *)
(* compute_length_bias and _select_diverse_samples (bias_auditor.py).      *)
(* judge_results_dir is a sorted list of entries; a directory entry holds  *)
(* the files "*_judge.json" in sorted order.  A file name is its stem as   *)
(* tokens, a content either parses as a JSON object or does not.  Every    *)
(* piece of data an analysis records carries the file it was read from.    *)
(***************************************************************************)
MaxFiles == 2
N_SAMPLES == 5
MIN_POINTS == 5

CorruptContent == [parses |-> FALSE, judge_score |-> 0, factual_errors |-> <<>>,
                key_omissions |-> <<>>]
JsonObject(score, errors, omissions) ==
    [parses |-> TRUE, judge_score |-> score, factual_errors |-> errors,
     key_omissions |-> omissions]

JudgeFile(name, content) == [name |-> name, content |-> content]

\* the artifacts a judge directory may hold, in the order sorted() gives
ArtifactFiles ==
    <<JudgeFile(<<"a", "_", "m", "_", "judge">>, JsonObject(80, <<>>, <<"o">>)),
      JudgeFile(<<"b", "_", "judge">>, JsonObject(50, <<"e">>, <<>>)),
      JudgeFile(<<"c", "_", "m", "_", "judge">>, CorruptContent),
      JudgeFile(<<"d", "_", "m", "_", "judge">>, JsonObject(30, <<"e">>, <<>>))>>

RECURSIVE SortedSubseqs(_)
SortedSubseqs(s) ==
    IF s = <<>> THEN {<<>>}
    ELSE LET rest == SortedSubseqs(Tail(s))
         IN  rest \cup {<<Head(s)>> \o r : r \in rest}

FileLists == {fs \in SortedSubseqs(ArtifactFiles) : Len(fs) <= MaxFiles}

DirEntry(name, files) == [is_dir |-> TRUE, name |-> name, files |-> files]
PlainEntry(name) == [is_dir |-> FALSE, name |-> name, files |-> <<>>]
EntriesNamed(name) == {PlainEntry(name)} \cup {DirEntry(name, fs) : fs \in FileLists}

JudgeResultsDirs ==
    {<<e>> : e \in EntriesNamed("j1")}
        \cup {<<e1, e2>> : e1 \in EntriesNamed("j1"), e2 \in EntriesNamed("j2")}

\* word_counts of compute_length_bias: the summaries on disk, by "case|model"
WordCounts == {[case |-> <<"a">>, model |-> <<"m">>, wc |-> 7],
               [case |-> <<"c">>, model |-> <<"m">>, wc |-> 5]}

\* stem.replace("_judge", "")
RECURSIVE RemoveJudge(_)
RemoveJudge(s) ==
    IF s = <<>> THEN <<>>
    ELSE IF Len(s) >= 2 /\ s[1] = "_" /\ s[2] = "judge" THEN RemoveJudge(Tail(Tail(s)))
    ELSE <<Head(s)>> \o RemoveJudge(Tail(s))

\* stem.rsplit("_", 1)
RSplit1(s) ==
    IF \E i \in 1..Len(s) : s[i] = "_"
    THEN LET last == AfterLast(s, "_")
         IN  <<SubSeq(s, 1, Len(s) - Len(last) - 1), last>>
    ELSE <<s>>

Parts(file) == RSplit1(RemoveJudge(file.name))

\* case_name = parts[0] if len(parts) == 2 else stem
CaseName(file) == IF Len(Parts(file)) = 2 THEN Parts(file)[1] ELSE RemoveJudge(file.name)
\* model_short = parts[1] if len(parts) == 2 else "unknown"
ModelName(file) == IF Len(Parts(file)) = 2 THEN Parts(file)[2] ELSE <<"unknown">>

Origin(judge, file) == [judge |-> judge, name |-> file.name]

\* scores[judge_name][case_name][model_short] = {...}
PutScore(scores, judge, file) ==
    {r \in scores : ~(r.judge = judge /\ r.case = CaseName(file) /\ r.model = ModelName(file))}
        \cup {[judge |-> judge, case |-> CaseName(file), model |-> ModelName(file),
               judge_score |-> file.content.judge_score, origin |-> Origin(judge, file)]}

\* one entry of classified_errors or classified_omissions per item
RECURSIVE Classified(_, _, _)
Classified(items, judge, file) ==
    IF items = <<>> THEN <<>>
    ELSE <<[judge |-> judge, case |-> CaseName(file), model |-> ModelName(file),
            item |-> Head(items), origin |-> Origin(judge, file)]>>
         \o Classified(Tail(items), judge, file)

\* files_with_scores.sort(key=lambda x: x[1])
RECURSIVE InsertByScore(_, _)
InsertByScore(x, sorted) ==
    IF sorted = <<>> THEN <<x>>
    ELSE IF x.score < Head(sorted).score THEN <<x>> \o sorted
    ELSE <<Head(sorted)>> \o InsertByScore(x, Tail(sorted))

RECURSIVE SortByScore(_)
SortByScore(s) ==
    IF s = <<>> THEN <<>>
    ELSE InsertByScore(s[Len(s)], SortByScore(SubSeq(s, 1, Len(s) - 1)))

\* np.linspace(0, len - 1, n, dtype=int)
Linspace(len, n) ==
    [i \in 1..n |-> IF n = 1 THEN 0 ELSE ((i - 1) * (len - 1)) \div (n - 1)]

\* the samples _select_diverse_samples returns
Selected(files_with_scores, n) ==
    LET sorted == SortByScore(files_with_scores)
    IN  IF Len(sorted) <= n THEN sorted
        ELSE [i \in 1..n |-> sorted[Linspace(Len(sorted), n)[i] + 1]]

\* results[judge_name] of compute_length_bias
LengthBiasResult(judge, data_points) ==
    [judge |-> judge,
     result |-> IF Len(data_points) < MIN_POINTS THEN "Too few data points"
                ELSE "correlation"]

Analyses == {"load_judge_scores", "extract_and_classify_errors",
             "compute_length_bias", "_select_diverse_samples"}

LoadersInit ==
    /\ \E analysis \in Analyses, entries \in JudgeResultsDirs :
          ld = [phase |-> "running", analysis |-> analysis, entries |-> entries,
                in_dir |-> FALSE, judge_name |-> "", files |-> <<>>,
                read |-> {}, warned |-> {},
                scores |-> {}, judges |-> <<>>,
                classified_errors |-> <<>>, classified_omissions |-> <<>>,
                data_points |-> <<>>, results |-> <<>>,
                files_with_scores |-> <<>>, selected |-> <<>>]
    /\ es = Idle /\ cc = Idle /\ store = Idle /\ jb = Idle /\ sc = Idle /\ cp = Idle
    /\ ExtraIdle
    /\ bs = Idle /\ nl = Idle /\ cv = Idle /\ pk = Idle /\ pb = Idle /\ lg = Idle

\* if not judge_dir.is_dir(): continue
LoaderSkipEntry ==
    /\ ld.phase = "running" /\ ~ld.in_dir
    /\ ld.entries # <<>>
    /\ ~Head(ld.entries).is_dir
    /\ ld' = [ld EXCEPT !.entries = Tail(@)]
    /\ UNCHANGED <<core, extra, bs, nl, cv, pk, pb, lg>>

\* the statements between the is_dir test and the loop over the files
LoaderEnterDir ==
    /\ ld.phase = "running" /\ ~ld.in_dir
    /\ ld.entries # <<>>
    /\ Head(ld.entries).is_dir
    /\ ld' = [ld EXCEPT !.entries = Tail(@),
                        !.in_dir = TRUE,
                        !.judge_name = Head(ld.entries).name,
                        !.files = Head(ld.entries).files,
                        !.judges = IF ld.analysis = "load_judge_scores"
                                   THEN Append(@, Head(ld.entries).name) ELSE @,
                        !.data_points = <<>>,
                        !.files_with_scores = <<>>]
    /\ UNCHANGED <<core, extra, bs, nl, cv, pk, pb, lg>>

\* load_judge_scores: the try body for one file, or its except handler
LoadJudgeScoresFile ==
    /\ ld.phase = "running" /\ ld.in_dir
    /\ ld.analysis = "load_judge_scores"
    /\ ld.files # <<>>
    /\ LET file == Head(ld.files)
           origin == Origin(ld.judge_name, file)
       IN  ld' = [ld EXCEPT !.files = Tail(@),
                            !.read = @ \cup {origin},
                            !.warned = IF file.content.parses THEN @ ELSE @ \cup {origin},
                            !.scores = IF file.content.parses
                                       THEN PutScore(@, ld.judge_name, file) ELSE @]
    /\ UNCHANGED <<core, extra, bs, nl, cv, pk, pb, lg>>

\* extract_and_classify_errors: one file, skipped when json.loads raises
ExtractErrorsFile ==
    /\ ld.phase = "running" /\ ld.in_dir
    /\ ld.analysis = "extract_and_classify_errors"
    /\ ld.files # <<>>
    /\ LET file == Head(ld.files)
           origin == Origin(ld.judge_name, file)
       IN  ld' = [ld EXCEPT
                     !.files = Tail(@),
                     !.read = @ \cup {origin},
                     !.warned = IF file.content.parses THEN @ ELSE @ \cup {origin},
                     !.classified_errors =
                         IF file.content.parses
                         THEN @ \o Classified(file.content.factual_errors, ld.judge_name, file)
                         ELSE @,
                     !.classified_omissions =
                         IF file.content.parses
                         THEN @ \o Classified(file.content.key_omissions, ld.judge_name, file)
                         ELSE @]
    /\ UNCHANGED <<core, extra, bs, nl, cv, pk, pb, lg>>

\* compute_length_bias: one file whose content parses
LengthBiasFile ==
    /\ ld.phase = "running" /\ ld.in_dir
    /\ ld.analysis = "compute_length_bias"
    /\ ld.files # <<>>
    /\ Head(ld.files).content.parses
    /\ LET file == Head(ld.files)
           origin == Origin(ld.judge_name, file)
           parts == Parts(file)
           found == IF Len(parts) = 2
                    THEN {w \in WordCounts : w.case = parts[1] /\ w.model = parts[2]}
                    ELSE {}
       IN  ld' = [ld EXCEPT
                     !.files = Tail(@),
                     !.read = @ \cup {origin},
                     !.data_points =
                         IF found = {} THEN @
                         ELSE Append(@, [case |-> parts[1], model |-> parts[2],
                                         word_count |-> (CHOOSE w \in found : TRUE).wc,
                                         judge_score |-> file.content.judge_score,
                                         origin |-> origin])]
    /\ UNCHANGED <<core, extra, bs, nl, cv, pk, pb, lg>>

\* compute_length_bias: json.loads raises and nothing catches it
LengthBiasRaise ==
    /\ ld.phase = "running" /\ ld.in_dir
    /\ ld.analysis = "compute_length_bias"
    /\ ld.files # <<>>
    /\ ~Head(ld.files).content.parses
    /\ ld' = [ld EXCEPT !.phase = "raised",
                        !.read = @ \cup {Origin(ld.judge_name, Head(ld.files))}]
    /\ UNCHANGED <<core, extra, bs, nl, cv, pk, pb, lg>>

\* compute_length_bias: results[judge_name] after the files of a directory
LengthBiasDirDone ==
    /\ ld.phase = "running" /\ ld.in_dir
    /\ ld.analysis = "compute_length_bias"
    /\ ld.files = <<>>
    /\ ld' = [ld EXCEPT !.in_dir = FALSE,
                        !.results = Append(@, LengthBiasResult(ld.judge_name, ld.data_points))]
    /\ UNCHANGED <<core, extra, bs, nl, cv, pk, pb, lg>>

\* _select_diverse_samples: one file whose content parses
SelectSamplesFile ==
    /\ ld.phase = "running" /\ ld.in_dir
    /\ ld.analysis = "_select_diverse_samples"
    /\ ld.files # <<>>
    /\ Head(ld.files).content.parses
    /\ LET file == Head(ld.files)
           origin == Origin(ld.judge_name, file)
       IN  ld' = [ld EXCEPT
                     !.files = Tail(@),
                     !.read = @ \cup {origin},
                     !.files_with_scores =
                         Append(@, [name |-> file.name, score |-> file.content.judge_score,
                                    origin |-> origin])]
    /\ UNCHANGED <<core, extra, bs, nl, cv, pk, pb, lg>>

\* _select_diverse_samples: json.loads raises and nothing catches it
SelectSamplesRaise ==
    /\ ld.phase = "running" /\ ld.in_dir
    /\ ld.analysis = "_select_diverse_samples"
    /\ ld.files # <<>>
    /\ ~Head(ld.files).content.parses
    /\ ld' = [ld EXCEPT !.phase = "raised",
                        !.read = @ \cup {Origin(ld.judge_name, Head(ld.files))}]
    /\ UNCHANGED <<core, extra, bs, nl, cv, pk, pb, lg>>

\* _select_diverse_samples returns from inside the first directory
SelectSamplesReturn ==
    /\ ld.phase = "running" /\ ld.in_dir
    /\ ld.analysis = "_select_diverse_samples"
    /\ ld.files = <<>>
    /\ ld' = [ld EXCEPT !.phase = "returned",
                        !.selected = Selected(ld.files_with_scores, N_SAMPLES)]
    /\ UNCHANGED <<core, extra, bs, nl, cv, pk, pb, lg>>

\* load_judge_scores, extract_and_classify_errors: the next directory
LoaderDirDone ==
    /\ ld.phase = "running" /\ ld.in_dir
    /\ ld.analysis \in {"load_judge_scores", "extract_and_classify_errors"}
    /\ ld.files = <<>>
    /\ ld' = [ld EXCEPT !.in_dir = FALSE]
    /\ UNCHANGED <<core, extra, bs, nl, cv, pk, pb, lg>>

\* the return after the loop over the entries
LoaderReturn ==
    /\ ld.phase = "running" /\ ~ld.in_dir
    /\ ld.entries = <<>>
    /\ ld' = [ld EXCEPT !.phase = "returned"]
    /\ UNCHANGED <<core, extra, bs, nl, cv, pk, pb, lg>>

LoadersNext ==
    \/ LoaderSkipEntry \/ LoaderEnterDir
    \/ LoadJudgeScoresFile \/ ExtractErrorsFile
    \/ LengthBiasFile \/ LengthBiasRaise \/ LengthBiasDirDone
    \/ SelectSamplesFile \/ SelectSamplesRaise \/ SelectSamplesReturn
    \/ LoaderDirDone \/ LoaderReturn

SpecLoaders == LoadersInit /\ [][LoadersNext]_vars

(***************************************************************************)
(* classify_error and classify_omission.  A table is the list of its       *)
(* category keys in declaration order, each with its patterns numbered     *)
(* from 1.  A text is the set of the patterns <<key, i>> that re.search    *)
(* finds in it.                                                            *)
(***************************************************************************)
MaxMatches == 3
PatternsPerCategory == 2

TAXONOMY ==
    <<"wrong_holding", "wrong_vote_count", "fabricated_precedent", "merged_parties",
      "omitted_dissent", "omitted_concurrence", "wrong_legal_standard",
      "invented_detail", "wrong_justice_attribution">>

OMISSION_TAXONOMY ==
    <<"omitted_dissent", "omitted_concurrence", "omitted_holding", "omitted_vote_count",
      "omitted_reasoning", "omitted_justice_opinion", "omitted_procedural">>

TableOf(kind) == IF kind = "error" THEN TAXONOMY ELSE OMISSION_TAXONOMY
\* the key appended when matches is empty
Fallback(kind) == IF kind = "error" THEN "other" ELSE "other_omission"

PatternsOf(kind) ==
    {<<TableOf(kind)[c], i>> : c \in 1..Len(TableOf(kind)), i \in 1..PatternsPerCategory}

ClassifiedTexts(kind) == {t \in SUBSET PatternsOf(kind) : Cardinality(t) <= MaxMatches}

\* the inner loop over cat_def["patterns"] without its break
RECURSIVE AppendedPerPattern(_, _, _)
AppendedPerPattern(cat_key, text, i) ==
    IF i > PatternsPerCategory THEN <<>>
    ELSE (IF <<cat_key, i>> \in text THEN <<cat_key>> ELSE <<>>)
         \o AppendedPerPattern(cat_key, text, i + 1)

\* the inner loop over cat_def["patterns"]: append once and break
RECURSIVE Appended(_, _, _)
Appended(cat_key, text, i) ==
    IF i > PatternsPerCategory THEN <<>>
    ELSE IF <<cat_key, i>> \in text THEN <<cat_key>>
    ELSE Appended(cat_key, text, i + 1)

ClassifyInit ==
    /\ \E kind \in {"error", "omission"} :
          \E text \in ClassifiedTexts(kind) :
              tx = [phase |-> "running", kind |-> kind, text |-> text,
                    todo |-> TableOf(kind), matches |-> <<>>]
    /\ es = Idle /\ cc = Idle /\ store = Idle /\ jb = Idle /\ sc = Idle /\ cp = Idle
    /\ bs = Idle /\ nl = Idle /\ cv = Idle /\ pk = Idle /\ pb = Idle /\ lg = Idle
    /\ ld = Idle /\ kp = Idle /\ ag = Idle /\ sd = Idle /\ vo = Idle

\* one iteration of the loop over the table
ClassifyCategory ==
    /\ tx.phase = "running"
    /\ tx.todo # <<>>
    /\ tx' = [tx EXCEPT !.todo = Tail(@),
                        !.matches = @ \o Appended(Head(tx.todo), tx.text, 1)]
    /\ UNCHANGED <<core, bs, nl, cv, pk, pb, lg, ld, kp, ag, sd, vo>>

\* if not matches: matches.append(fallback); return matches
ClassifyReturn ==
    /\ tx.phase = "running"
    /\ tx.todo = <<>>
    /\ tx' = [tx EXCEPT !.phase = "returned",
                        !.matches = IF @ = <<>> THEN <<Fallback(tx.kind)>> ELSE @]
    /\ UNCHANGED <<core, bs, nl, cv, pk, pb, lg, ld, kp, ag, sd, vo>>

ClassifyNext == ClassifyCategory \/ ClassifyReturn

SpecClassify == ClassifyInit /\ [][ClassifyNext]_vars

(***************************************************************************)
(* _weighted_kappa, called by compute_cohens_kappa with the categories     *)
(* 1..5.  The two rating lists are given as the list of their pairs.  The  *)
(* confusion matrix holds counts; the division by n, the marginals and     *)
(* the weights' divisor (k-1)^2 are carried in the quotient returned:      *)
(* O/E = n * sum(w*count) / sum(w * row * col).                            *)
(***************************************************************************)
MaxRatings == 3
NumCategories == 5

Categories == 1..NumCategories
RatingValues == {0, 1, 3, 5}
RatingPairs == RatingValues \X RatingValues
RatingLists == {s \in SeqsUpTo(RatingPairs, MaxRatings) : Len(s) >= 1}

\* cat_to_idx.get(r, 0) with the default at the other end of the table
CatToIdxLast(r) == IF r \in Categories THEN r - 1 ELSE NumCategories - 1
\* cat_to_idx.get(r, 0)
CatToIdx(r) == IF r \in Categories THEN r - 1 ELSE 0

Indices == 0..(NumCategories - 1)

\* confusion[i][j] += 1 for every pair of zip(rater1, rater2)
RECURSIVE Confusion(_)
Confusion(pairs) ==
    IF pairs = <<>> THEN [i \in Indices, j \in Indices |-> 0]
    ELSE LET rest == Confusion(SubSeq(pairs, 1, Len(pairs) - 1))
             last == pairs[Len(pairs)]
         IN  [rest EXCEPT ![CatToIdx(last[1]), CatToIdx(last[2])] = @ + 1]

\* numerator of weights[i][j] with |i - j| in place of the square
WeightLinear(i, j) == IF i >= j THEN i - j ELSE j - i
\* numerator of weights[i][j] = (i - j) ** 2 / (k - 1) ** 2
Weight(i, j) == (i - j) * (i - j)

RECURSIVE SumOver(_, _)
SumOver(S, f) ==
    IF S = {} THEN 0
    ELSE LET x == CHOOSE y \in S : TRUE IN f[x] + SumOver(S \ {x}, f)

RowMarginal(confusion, i) == SumOver(Indices, [j \in Indices |-> confusion[i, j]])
ColMarginal(confusion, j) == SumOver(Indices, [i \in Indices |-> confusion[i, j]])

\* (weights * confusion).sum(), times n * (k-1)^2
ObservedDisagreement(confusion) ==
    SumOver(Indices \X Indices,
            [p \in Indices \X Indices |-> Weight(p[1], p[2]) * confusion[p[1], p[2]]])

\* (weights * expected).sum(), times n^2 * (k-1)^2
ExpectedDisagreement(confusion) ==
    SumOver(Indices \X Indices,
            [p \in Indices \X Indices |->
                Weight(p[1], p[2]) * RowMarginal(confusion, p[1]) * ColMarginal(confusion, p[2])])

\* the value returned for a confusion matrix of n pairs
Kappa(confusion, n) ==
    LET o == ObservedDisagreement(confusion)
        e == ExpectedDisagreement(confusion)
    IN  IF e = 0 THEN Ratio(1, 1) ELSE Ratio(e - n * o, e)

weighted_kappa(pairs) == Kappa(Confusion(pairs), Len(pairs))

NoKappa == Ratio(0, 0)

KappaInit ==
    /\ \E pairs \in RatingLists :
          kp = [phase |-> "called", pairs |-> pairs,
                confusion |-> Confusion(<<>>), out |-> NoKappa]
    /\ es = Idle /\ cc = Idle /\ store = Idle /\ jb = Idle /\ sc = Idle /\ cp = Idle
    /\ bs = Idle /\ nl = Idle /\ cv = Idle /\ pk = Idle /\ pb = Idle /\ lg = Idle
    /\ ld = Idle /\ tx = Idle /\ ag = Idle /\ sd = Idle /\ vo = Idle

\* the loop building the confusion matrix
KappaConfusion ==
    /\ kp.phase = "called"
    /\ kp' = [kp EXCEPT !.phase = "counted", !.confusion = Confusion(kp.pairs)]
    /\ UNCHANGED <<core, bs, nl, cv, pk, pb, lg, ld, tx, ag, sd, vo>>

\* marginals, expected matrix, weights and the value returned
KappaReturn ==
    /\ kp.phase = "counted"
    /\ kp' = [kp EXCEPT !.phase = "returned",
                        !.out = Kappa(kp.confusion, Len(kp.pairs))]
    /\ UNCHANGED <<core, bs, nl, cv, pk, pb, lg, ld, tx, ag, sd, vo>>

KappaNext == KappaConfusion \/ KappaReturn

SpecKappa == KappaInit /\ [][KappaNext]_vars

(***************************************************************************)
(* The order in which evaluate_all_judge visits its keys.  ground_truths   *)
(* and the inner dicts of llm_summaries are given by their key order (the  *)
(* insertion order of the dict); every case has the same summarizers, and  *)
(* none holds those whose summary_path is None.  A run is followed by at   *)
(* most one further run over the same keys in another dict order, with     *)
(* the artifacts the first run wrote.                                      *)
(***************************************************************************)
MaxCases == 2

CaseZeroTwoB == <<"0", "2", " ", "B">>
CaseMillions == <<"9", "9", "9", "9", "9", "9", "9", " ", "A">>
CaseNoNumber == <<"x">>
OrderCases == {CaseTwoB, CaseTenA, CaseZeroTwoB, CaseMillions, CaseNoNumber}
OrderModels == {ModelX, ModelG}

\* the key orders a dict with the given key set may have
KeyOrders(S) ==
    {s \in SeqsUpTo(S, Cardinality(S)) :
        Len(s) = Cardinality(S) /\ \A i, j \in 1..Len(s) : i # j => s[i] # s[j]}

GroundTruthOrders ==
    UNION {KeyOrders(S) : S \in {T \in SUBSET OrderCases : Cardinality(T) \in 1..MaxCases}}

\* the keys in the order the two loops meet them
RECURSIVE VisitOrder(_, _)
VisitOrder(sorted_cases, models) ==
    IF sorted_cases = <<>> THEN <<>>
    ELSE [i \in 1..Len(models) |-> <<Head(sorted_cases), SortedModels(models)[i]>>]
         \o VisitOrder(Tail(sorted_cases), models)

OrderRun(run, ground_truths, models, none, existing, first_calls) ==
    [phase |-> "running", run |-> run, ground_truths |-> ground_truths,
     models |-> models, none |-> none,
     todo |-> VisitOrder(SortedCases(ground_truths), models),
     existing |-> existing, calls |-> <<>>, first_calls |-> first_calls]

OrderInit ==
    /\ \E ground_truths \in GroundTruthOrders, models \in KeyOrders(OrderModels),
          none \in {{}, {ModelX}} :
          vo = OrderRun(1, ground_truths, models, none, {}, <<>>)
    /\ es = Idle /\ cc = Idle /\ store = Idle /\ jb = Idle /\ sc = Idle /\ cp = Idle
    /\ bs = Idle /\ nl = Idle /\ cv = Idle /\ pk = Idle /\ pb = Idle /\ lg = Idle
    /\ ld = Idle /\ tx = Idle /\ kp = Idle /\ ag = Idle /\ sd = Idle

OrderPath(k) == ResultPath(JudgeModel, k[1], k[2])

\* if summary_path is None: continue
OrderSkipNone ==
    /\ vo.phase = "running" /\ vo.todo # <<>>
    /\ Head(vo.todo)[2] \in vo.none
    /\ vo' = [vo EXCEPT !.todo = Tail(@)]
    /\ UNCHANGED <<core, bs, nl, cv, pk, pb, lg, ld, tx, kp, ag, sd>>

\* if result_path.exists(): ... continue
OrderSkipExisting ==
    /\ vo.phase = "running" /\ vo.todo # <<>>
    /\ Head(vo.todo)[2] \notin vo.none
    /\ OrderPath(Head(vo.todo)) \in vo.existing
    /\ vo' = [vo EXCEPT !.todo = Tail(@)]
    /\ UNCHANGED <<core, bs, nl, cv, pk, pb, lg, ld, tx, kp, ag, sd>>

\* evaluate_summary returns and the artifact is written
OrderCall ==
    /\ vo.phase = "running" /\ vo.todo # <<>>
    /\ Head(vo.todo)[2] \notin vo.none
    /\ OrderPath(Head(vo.todo)) \notin vo.existing
    /\ vo' = [vo EXCEPT !.todo = Tail(@),
                        !.calls = Append(@, Head(vo.todo)),
                        !.existing = @ \cup {OrderPath(Head(vo.todo))}]
    /\ UNCHANGED <<core, bs, nl, cv, pk, pb, lg, ld, tx, kp, ag, sd>>

\* evaluate_summary raises: the run ends without an artifact for the key
OrderCallRaises ==
    /\ vo.phase = "running" /\ vo.todo # <<>>
    /\ Head(vo.todo)[2] \notin vo.none
    /\ OrderPath(Head(vo.todo)) \notin vo.existing
    /\ vo' = [vo EXCEPT !.phase = "aborted",
                        !.calls = Append(@, Head(vo.todo))]
    /\ UNCHANGED <<core, bs, nl, cv, pk, pb, lg, ld, tx, kp, ag, sd>>

OrderReturn ==
    /\ vo.phase = "running" /\ vo.todo = <<>>
    /\ vo' = [vo EXCEPT !.phase = "returned"]
    /\ UNCHANGED <<core, bs, nl, cv, pk, pb, lg, ld, tx, kp, ag, sd>>

\* the next call of evaluate_all_judge, its dicts built in another order
OrderResume ==
    /\ vo.phase \in {"aborted", "returned"} /\ vo.run = 1
    /\ \E ground_truths \in KeyOrders({vo.ground_truths[i] : i \in 1..Len(vo.ground_truths)}),
          models \in KeyOrders(OrderModels) :
          vo' = OrderRun(2, ground_truths, models, vo.none, vo.existing, vo.calls)
    /\ UNCHANGED <<core, bs, nl, cv, pk, pb, lg, ld, tx, kp, ag, sd>>

OrderNext ==
    \/ OrderSkipNone \/ OrderSkipExisting \/ OrderCall \/ OrderCallRaises
    \/ OrderReturn \/ OrderResume

SpecOrder == OrderInit /\ [][OrderNext]_vars

(***************************************************************************)
(* CoverageEvaluator.evaluate_summary, run on the texts the contradiction  *)
(* detector was run on.  The embedding model is outside the program: the   *)
(* similarity of a pair of sentences is any of SimilarityValues            *)
(* (hundredths).                                                           *)
(***************************************************************************)
MaxFilterSentences == 2
THRESHOLD == 50
SimilarityValues == {40, 50}

\* `if len(s.strip()) > 10` of the two list comprehensions
CoverageQualifies(s) == s.len > MIN_SENTENCE_LEN

\* the payload returned when one of the two lists is empty
NoComparison ==
    [sentence_results |-> <<>>, omissions |-> <<>>,
     coverage_percentage |-> Ratio(0, 1), coverage_score |-> Ratio(0, 1)]

\* the first best match of the loop over the summary sentences:
\* best_similarity starts at -1 and is replaced on a strictly greater value
RECURSIVE BestSimilarity(_, _)
BestSimilarity(sims, best) ==
    IF sims = <<>> THEN best
    ELSE BestSimilarity(Tail(sims), IF Head(sims) > best THEN Head(sims) ELSE best)

FilterInit ==
    /\ \E g \in ReferenceTexts, c \in CandidateTexts :
          /\ Len(g) <= MaxFilterSentences /\ Len(c) <= MaxFilterSentences
          /\ nl = [gt |-> g, summary |-> c, i |-> 1, j |-> 1, results |-> <<>>,
                   contradicted |-> 0, calls |-> <<>>, out |-> NoNliResult]
          /\ cv = [phase |-> "called", gt |-> g, summary |-> c,
                   gt_sentences |-> <<>>, summary_sentences |-> <<>>,
                   i |-> 1, results |-> <<>>, covered_count |-> 0, out |-> NoComparison]
    /\ es = Idle /\ cc = Idle /\ store = Idle /\ jb = Idle /\ sc = Idle /\ cp = Idle
    /\ ExtraIdle
    /\ bs = Idle /\ pk = Idle /\ pb = Idle /\ lg = Idle /\ ld = Idle

\* the two filtered lists and the early return
CoverageSplit ==
    /\ nl.out # NoNliResult
    /\ cv.phase = "called"
    /\ LET gt_sentences == SelectSeq(cv.gt, CoverageQualifies)
           summary_sentences == SelectSeq(cv.summary, CoverageQualifies)
       IN  cv' = [cv EXCEPT
                     !.gt_sentences = gt_sentences,
                     !.summary_sentences = summary_sentences,
                     !.phase = IF gt_sentences = <<>> \/ summary_sentences = <<>>
                               THEN "returned" ELSE "comparing"]
    /\ UNCHANGED <<core, extra, bs, nl, pk, pb, lg, ld>>

\* one reference sentence against every summary sentence
CoverageSentence ==
    /\ cv.phase = "comparing"
    /\ cv.i <= Len(cv.gt_sentences)
    /\ \E sims \in [1..Len(cv.summary_sentences) -> SimilarityValues] :
          LET best_similarity == BestSimilarity(sims, -1)
              is_covered == best_similarity >= THRESHOLD
          IN  cv' = [cv EXCEPT
                        !.i = @ + 1,
                        !.covered_count = IF is_covered THEN @ + 1 ELSE @,
                        !.results = Append(@, [ground_truth_sentence |-> cv.gt_sentences[cv.i],
                                               similarity |-> best_similarity,
                                               is_covered |-> is_covered])]
    /\ UNCHANGED <<core, extra, bs, nl, pk, pb, lg, ld>>

\* coverage_pct and the returned dict
CoverageReturn ==
    /\ cv.phase = "comparing"
    /\ cv.i > Len(cv.gt_sentences)
    /\ cv' = [cv EXCEPT
                 !.phase = "returned",
                 !.out = [sentence_results |-> cv.results,
                          omissions |-> SelectSeq(cv.results, LAMBDA r : ~r.is_covered),
                          coverage_percentage |-> Ratio(100 * cv.covered_count, Len(cv.gt_sentences)),
                          coverage_score |-> Ratio(cv.covered_count, Len(cv.gt_sentences))]]
    /\ UNCHANGED <<core, extra, bs, nl, pk, pb, lg, ld>>

CoverageNext == CoverageSplit \/ CoverageSentence \/ CoverageReturn

FilterNext == NliNext \/ CoverageNext

SpecFilter == FilterInit /\ [][FilterNext]_vars

(***************************************************************************)
(* analyze_taxonomy and the severity table of generate_taxonomy_report.    *)
(* A classified error is its primary category and the severity the judge   *)
(* wrote, which is any JSON value: a string, or a list, which a Counter    *)
(* cannot take as key.                                                     *)
(***************************************************************************)
MaxErrors == 2

ListSeverity == "[list]"
SeverityValues ==
    {"Minor", "Major", "Substantial", "Major Issue", "Critical", "Unknown", "?",
     "Moderate", ListSeverity}
ErrorCategories == {"wrong_holding", "other"}
ClassifiedErrors ==
    {[primary_category |-> c, severity |-> s] : c \in ErrorCategories, s \in SeverityValues}
ErrorLists == SeqsUpTo(ClassifiedErrors, MaxErrors)

Hashable(severity) == severity # ListSeverity

\* a Counter per category: a missing key counts 0
EmptyCounters == [c \in ErrorCategories, s \in SeverityValues |-> 0]

\* Counter(e["primary_category"] for e in errors)
CategoryCount(errors, cat) == Len(SelectSeq(errors, LAMBDA e : e.primary_category = cat))

\* sev.get(key, 0)
SevGet(severity_by_cat, cat, key) == severity_by_cat[cat, key]

\* one row of the table "Minor | Major | Critical | Other"
SeverityRow(severity_by_cat, cat) ==
    [category |-> cat,
     minor |-> SevGet(severity_by_cat, cat, "Minor"),
     major |-> SevGet(severity_by_cat, cat, "Major")
                 + SevGet(severity_by_cat, cat, "Substantial")
                 + SevGet(severity_by_cat, cat, "Major Issue"),
     critical |-> SevGet(severity_by_cat, cat, "Critical"),
     other |-> SevGet(severity_by_cat, cat, "Unknown") + SevGet(severity_by_cat, cat, "?")]

AggregateInit ==
    /\ \E errors \in ErrorLists :
          ag = [phase |-> "counting", errors |-> errors, todo |-> errors,
                severity_by_cat |-> EmptyCounters, rows |-> {}]
    /\ es = Idle /\ cc = Idle /\ store = Idle /\ jb = Idle /\ sc = Idle /\ cp = Idle
    /\ bs = Idle /\ nl = Idle /\ cv = Idle /\ pk = Idle /\ pb = Idle /\ lg = Idle
    /\ ld = Idle /\ tx = Idle /\ kp = Idle /\ sd = Idle /\ vo = Idle

\* severity_by_cat[e["primary_category"]][e["severity"]] += 1
AggregateCount ==
    /\ ag.phase = "counting"
    /\ ag.todo # <<>>
    /\ Hashable(Head(ag.todo).severity)
    /\ ag' = [ag EXCEPT
                 !.todo = Tail(@),
                 !.severity_by_cat[Head(ag.todo).primary_category, Head(ag.todo).severity] = @ + 1]
    /\ UNCHANGED <<core, bs, nl, cv, pk, pb, lg, ld, tx, kp, sd, vo>>

\* the Counter raises TypeError on a key that cannot be hashed
AggregateRaise ==
    /\ ag.phase = "counting"
    /\ ag.todo # <<>>
    /\ ~Hashable(Head(ag.todo).severity)
    /\ ag' = [ag EXCEPT !.phase = "raised"]
    /\ UNCHANGED <<core, bs, nl, cv, pk, pb, lg, ld, tx, kp, sd, vo>>

\* analyze_taxonomy returns; the report writes one row per category met
SeverityTable ==
    /\ ag.phase = "counting"
    /\ ag.todo = <<>>
    /\ ag' = [ag EXCEPT
                 !.phase = "reported",
                 !.rows = {SeverityRow(ag.severity_by_cat, cat) :
                              cat \in {c \in ErrorCategories : CategoryCount(ag.errors, c) > 0}}]
    /\ UNCHANGED <<core, bs, nl, cv, pk, pb, lg, ld, tx, kp, sd, vo>>

AggregateNext == AggregateCount \/ AggregateRaise \/ SeverityTable

SpecAggregate == AggregateInit /\ [][AggregateNext]_vars

(***************************************************************************)
(* compute_score_distributions for one judge with at least one            *)
(* evaluation.  An evaluation is the pair <<factual_accuracy,              *)
(* completeness>>.  acc_arr.std() is the population standard deviation:    *)
(* std < 0.5 iff 4 * (n * sum(x^2) - sum(x)^2) < n^2.                      *)
(***************************************************************************)
MaxEvaluations == 3

ScaleValues == {1, 2, 4}
EvaluationLists ==
    {s \in SeqsUpTo(ScaleValues \X ScaleValues, MaxEvaluations) : Len(s) >= 1}

Column(evaluations, d) == [i \in 1..Len(evaluations) |-> evaluations[i][d]]

\* arr.std() < 0.5
StdBelowHalf(arr) ==
    LET n == Len(arr)
        total == SumSeq(arr)
        squares == SumSeq([i \in 1..n |-> arr[i] * arr[i]])
    IN  4 * (n * squares - total * total) < n * n

\* int(arr.max()) - int(arr.min())
RangeUsed(arr) == Max({arr[i] : i \in 1..Len(arr)}) - Min({arr[i] : i \in 1..Len(arr)})

\* results[judge_name]["warnings"] after the three tests
Warnings(acc_arr, comp_arr) ==
    (IF StdBelowHalf(acc_arr) THEN {"low power: factual_accuracy"} ELSE {})
        \cup (IF StdBelowHalf(comp_arr) THEN {"low power: completeness"} ELSE {})
        \cup (IF RangeUsed(acc_arr) <= 1 THEN {"narrow range: factual_accuracy"} ELSE {})

DistributionsInit ==
    /\ \E evaluations \in EvaluationLists :
          sd = [phase |-> "called", evaluations |-> evaluations, warnings |-> {}]
    /\ es = Idle /\ cc = Idle /\ store = Idle /\ jb = Idle /\ sc = Idle /\ cp = Idle
    /\ bs = Idle /\ nl = Idle /\ cv = Idle /\ pk = Idle /\ pb = Idle /\ lg = Idle
    /\ ld = Idle /\ tx = Idle /\ kp = Idle /\ ag = Idle /\ vo = Idle

\* the statistics of the judge and its warnings
ComputeDistributions ==
    /\ sd.phase = "called"
    /\ sd' = [sd EXCEPT !.phase = "returned",
                        !.warnings = Warnings(Column(sd.evaluations, 1),
                                              Column(sd.evaluations, 2))]
    /\ UNCHANGED <<core, bs, nl, cv, pk, pb, lg, ld, tx, kp, ag, vo>>

DistributionsNext == ComputeDistributions

SpecDistributions == DistributionsInit /\ [][DistributionsNext]_vars

(***************************************************************************)
(* Properties of the judge response handling (SpecParse).                  *)
(***************************************************************************)
Unparseable(response) ==
    BraceBlock(response) = <<>> \/ ~IsJson(BraceBlock(response))

\* p spells the first characters of s
IsTextPrefix(p, s) ==
    /\ Len(p) <= Len(s)
    /\ \A i \in 1..Len(p) :
          IF i < Len(p) THEN p[i] = s[i]
          ELSE p[i].n <= s[i].n /\ [p[i] EXCEPT !.n = s[i].n] = s[i]

\* C3: whatever text the judge model returns, also a brace block that is
\* JSON without numeric factual_accuracy and completeness, evaluate_summary
\* returns a result with a judge_score and does not raise.
C3_NeverRaises == es.done => es.out.status = "returned"

\* C4: a response without a {...} block, or whose span from the first '{'
\* to the last '}' is not JSON, gives the default result (accuracy 3,
\* completeness 3, empty factual_errors and key_omissions, parse_error
\* true, raw_response the first 500 characters at most) and a judge_score
\* of 0.6, without raising.
C4_DefaultOnParseFailure ==
    (es.done /\ Unparseable(es.response)) =>
        LET r == es.out.result
        IN  /\ es.out.status = "returned"
            /\ r.factual_accuracy = IntV(3)
            /\ r.completeness = IntV(3)
            /\ r.factual_errors = ListV(0)
            /\ r.key_omissions = ListV(0)
            /\ r.parse_error = BoolV(TRUE)
            /\ r.raw_response.present
            /\ IsTextPrefix(r.raw_response.text, es.response)
            /\ TextLen(r.raw_response.text) =
                   IF TextLen(es.response) < 500 THEN TextLen(es.response) ELSE 500
            /\ es.out.judge_score = 6

C4_Witness ==
    /\ es.done
    /\ Unparseable(es.response)
    /\ BraceBlock(es.response) # <<>>
    /\ TextLen(es.response) > 500
    /\ es.out.judge_score = 6

(***************************************************************************)
(* Properties of the retry loop (SpecClient).                              *)
(***************************************************************************)
C5_State ==
    /\ cc.requests <= cc.max_retries
    /\ cc.phase = "running" => cc.attempt = cc.requests /\ cc.oks = 0
    /\ cc.phase = "returned" =>
          /\ cc.last = "ok"
          /\ cc.oks = 1
          /\ cc.value \in JudgeResponses
    /\ (cc.phase # "running" /\ cc.oks = 0) =>
          cc.phase = "raised" /\ cc.value = <<>>
    /\ (cc.phase = "running" /\ cc.attempt >= cc.max_retries) => ENABLED CCLoopExit

C5_Step ==
    /\ cc.phase # "running" => cc' = cc
    /\ cc.phase = "running" =>
          \/ cc'.phase # "running"
          \/ cc'.attempt = cc.attempt + 1

\* C5: chat_completion ends after at most max_retries requests: it returns
\* the content of the first successful response and requests nothing after
\* it; when every attempt fails it raises and returns no value.
C5_BoundedRetries == []C5_State /\ [][C5_Step]_vars

C5_Witness ==
    /\ cc.phase = "raised"
    /\ cc.error = "RuntimeError"
    /\ cc.max_retries = MAX_RETRIES
    /\ cc.requests = MAX_RETRIES

C6_State ==
    /\ cc.last = "r404" =>
          /\ cc.phase = "raised"
          /\ cc.error = "ValueError"
          /\ Len(cc.waits) = cc.requests - 1
    /\ (cc.last = "r429" /\ cc.requests < cc.max_retries) =>
          cc.phase = "running" /\ cc.attempt < cc.max_retries

C6_Step ==
    /\ cc.last = "r404" => cc'.requests = cc.requests /\ cc'.waits = cc.waits
    /\ (cc.last = "r429" /\ cc.requests < cc.max_retries) =>
          cc'.requests = cc.requests + 1

\* C6: a 404 on any attempt raises at once, with no further request and no
\* further wait; a 429 on any attempt but the last is followed by another
\* attempt.
C6_NotFoundFatal == []C6_State /\ [][C6_Step]_vars

C6_Witness ==
    /\ cc.last = "r404"
    /\ cc.phase = "raised"
    /\ cc.requests = 3
    /\ cc.max_retries = MAX_RETRIES

(***************************************************************************)
(* Properties of the resumable batch run (SpecJudge).                      *)
(***************************************************************************)
\* the run is at a key it has a summary for and whose artifact exists
AtExisting ==
    /\ AtItem
    /\ jb.summaries[CurrentKey] = "path"
    /\ Exists(PathOf(CurrentKey))

NoCallNoWrite == store' = store /\ cc' = cc /\ jb'.phase # "calling"

KeptAsLoaded(k) ==
    /\ k \in DOMAIN jb'.all_results
    /\ jb'.all_results[k] = store[PathOf(k)].data

PersistedOnce == \A k \in JudgeKeys : jb.persisted[k] <= 1

C1_OriginalStep == AtExisting => NoCallNoWrite /\ KeptAsLoaded(CurrentKey)

\* C1 as stated: a key whose artifact exists is not requested, its file is
\* not written and the loaded file content is its result; no key is
\* answered and persisted twice.
C1_ExistingIsLoaded == []PersistedOnce /\ [][C1_OriginalStep]_vars

C1_AmendedStep ==
    AtExisting =>
        /\ NoCallNoWrite
        /\ IF store[PathOf(CurrentKey)].kind = "json"
           THEN KeptAsLoaded(CurrentKey)
           ELSE CurrentKey \notin DOMAIN jb'.all_results

C1_Returned ==
    jb.phase = "returned" =>
        \A k \in JudgeKeys :
            (jb.summaries[k] = "path" /\ store[PathOf(k)].kind = "json") =>
                k \in DOMAIN jb.all_results /\ jb.all_results[k] = store[PathOf(k)].data

\* C1 amended: a key whose artifact exists is not requested and its file is
\* not written; the loaded content is its result when the file parses as
\* JSON, and the key has no result when it does not; no key is answered
\* and persisted twice.
C1_ExistingIsSkipped ==
    [](PersistedOnce /\ C1_Returned) /\ [][C1_AmendedStep]_vars

\* a later run has just skipped a key an earlier run persisted, and holds
\* the content of its file as the key's result
C1_Witness ==
    /\ jb.last_step = "loaded"
    /\ jb.persisted[jb.last_key] = 1
    /\ store[PathOf(jb.last_key)].kind = "json"
    /\ jb.last_key \in DOMAIN jb.all_results
    /\ jb.all_results[jb.last_key] = store[PathOf(jb.last_key)].data

\* C2: a failed remote call for one item does not end the run: the
\* remaining items are evaluated and the run returns what was computable.
C2_FailureIsolated == jb.last_step = "call_failed" => jb.phase # "raised"

(***************************************************************************)
(* Properties of compute_composite_score (SpecScore).                      *)
(***************************************************************************)
Contribution(d, key, weight) == IF d = EmptyDict THEN 0 ELSE weight * d[key]

\* C8: with any of the pillar results lacking its score field the call
\* returns, and the composite is the weighted sum in which each missing
\* pillar counts 0; weights (0.35, 0.40, 0.25) on (0.8, 0.6, 1.0) give 0.77.
C8_MissingPillarIsZero ==
    sc.out # NoScore =>
        /\ sc.out.status = "returned"
        /\ sc.out.value.composite_score =
               Contribution(sc.nli, "nli_score", sc.weights.nli)
               + Contribution(sc.judge, "judge_score", sc.weights.judge)
               + Contribution(sc.coverage, "coverage_score", sc.weights.coverage)
        /\ (/\ sc.weights = DefaultWeights
            /\ sc.nli = [nli_score |-> 80]
            /\ sc.judge = [judge_score |-> 60]
            /\ sc.coverage = [coverage_score |-> 100])
           => sc.out.value.composite_score = 7700

C8_Witness ==
    /\ sc.out # NoScore
    /\ sc.nli = EmptyDict
    /\ sc.judge = [judge_score |-> 60]
    /\ sc.coverage = EmptyDict
    /\ sc.weights = DefaultWeights
    /\ sc.out.value.composite_score = 2400

(***************************************************************************)
(* Properties of the composite aggregation (SpecComposite).                *)
(***************************************************************************)
KeysWithData == DOMAIN cp.nli \cup DOMAIN cp.judge \cup DOMAIN cp.coverage

\* C7: every (case, model) key with a result in at least one pillar store,
\* also one without an NLI result, has a per_case composite entry and is
\* counted in its model's aggregate.
C7_EveryKeyScored ==
    cp.phase # "input" =>
        \A k \in KeysWithData :
            /\ k \in DOMAIN cp.per_case
            /\ k[2] \in Range(cp.model_order)
            /\ k[1] \in Range(cp.score_cases[k[2]])

\* the cases both models of the pair have a score for
CommonCases(m1, m2) == Range(cp.score_cases[m1]) \cap Range(cp.score_cases[m2])

\* C9: position i of the two compared score vectors holds the scores of
\* the same case for both models, and only cases both models have a score
\* for are compared, also when the models cover different sets of cases.
C9_PositionsAligned ==
    cp.phase = "bootstrap" =>
        /\ cp.pair.cases_1 = cp.pair.cases_2
        /\ Range(cp.pair.cases_1) \subseteq CommonCases(cp.pair.m1, cp.pair.m2)

IdenticalLists(r) ==
    /\ cp.composite_scores[r.model_a] = cp.composite_scores[r.model_b]
    /\ Len(cp.composite_scores[r.model_a]) >= 2

\* C10: two models with identical per-case score lists (n >= 2) are never
\* reported significant, whatever indices the resampling draws.
C10_IdenticalNotSignificant ==
    cp.phase \in {"pairs", "returned"} =>
        \A i \in 1..Len(cp.significance) :
            IdenticalLists(cp.significance[i]) => ~cp.significance[i].significant

C10_Witness ==
    /\ cp.phase = "returned"
    /\ Len(cp.significance) = 1
    /\ IdenticalLists(cp.significance[1])
    /\ cp.composite_scores[ModelG][1] # cp.composite_scores[ModelG][2]
    /\ ~cp.significance[1].significant

\* the sum of the scores of model m that the pair's test compares: the
\* first n of its list, n the length of the shorter list of the pair
ComparedSum(r, m) ==
    LET la == Len(cp.composite_scores[r.model_a])
        lb == Len(cp.composite_scores[r.model_b])
        n == IF la < lb THEN la ELSE lb
    IN  SumSeq(SubSeq(cp.composite_scores[m], 1, n))

ExcludesZero(r) == r.ci_95_lower > 0 \/ r.ci_95_upper < 0

IsConstant(s) == \A i \in 1..Len(s) : s[i] = s[1]

\* two constant lists of the same length (>= 2) with different values are
\* reported significant, the model with the larger value as winner
ConstantListsDecided(r) ==
    LET a == cp.composite_scores[r.model_a]
        b == cp.composite_scores[r.model_b]
    IN  (IsConstant(a) /\ IsConstant(b) /\ Len(a) = Len(b) /\ a[1] # b[1]) =>
            /\ r.significant
            /\ r.winner = IF a[1] > b[1] THEN ModelShort(r.model_a)
                          ELSE ModelShort(r.model_b)

WinnerIsHigher(r) ==
    \/ ComparedSum(r, r.model_a) > ComparedSum(r, r.model_b)
          /\ r.winner = ModelShort(r.model_a)
    \/ ComparedSum(r, r.model_b) > ComparedSum(r, r.model_a)
          /\ r.winner = ModelShort(r.model_b)

WinnerIsHigherOrSecond(r) ==
    r.winner = IF ComparedSum(r, r.model_a) > ComparedSum(r, r.model_b)
               THEN ModelShort(r.model_a)
               ELSE ModelShort(r.model_b)

PairResults == IF cp.phase \in {"pairs", "returned"} THEN Range(cp.significance) ELSE {}

\* C11 as stated: in every result the winner is the model whose observed
\* mean is higher, significant holds exactly when the 95% interval of the
\* bootstrapped differences excludes zero, and constant lists with
\* different values are significant with the larger one as winner.
C11_WinnerHasHigherMean ==
    \A r \in PairResults :
        /\ WinnerIsHigher(r)
        /\ r.significant <=> ExcludesZero(r)
        /\ ConstantListsDecided(r)

\* C11 amended: the winner is the model whose observed mean over the
\* compared scores is higher, and model_b when the two means are equal;
\* the rest as stated.
C11_WinnerOrSecondOnTie ==
    \A r \in PairResults :
        /\ WinnerIsHigherOrSecond(r)
        /\ r.significant <=> ExcludesZero(r)
        /\ ConstantListsDecided(r)

\* constant lists of three scores, the model sorting second the higher one
C11_Witness ==
    /\ cp.phase = "returned"
    /\ Len(cp.significance) = 1
    /\ LET r == cp.significance[1]
       IN  /\ Len(cp.composite_scores[r.model_a]) = 3
           /\ Len(cp.composite_scores[r.model_b]) = 3
           /\ IsConstant(cp.composite_scores[r.model_a])
           /\ IsConstant(cp.composite_scores[r.model_b])
           /\ cp.composite_scores[r.model_a][1] < cp.composite_scores[r.model_b][1]
           /\ r.significant
           /\ r.winner = ModelShort(r.model_b)

(***************************************************************************)
(* Properties of bootstrap_composite_ci (SpecBootstrap).                   *)
(***************************************************************************)
BootReturned == bs.out # NoCiResult /\ Len(bs.scores) >= 2

\* C12: for n >= 2 the returned bounds enclose the mean, ci_lower <=
\* mean <= ci_upper, the bounds being rounded to 4 decimals and the mean
\* not; for a constant list lower, upper and mean are the same value.
C12_IntervalHoldsMean ==
    BootReturned =>
        LET r == bs.out.value
        IN  /\ r.ci_lower.value * r.mean.n <= r.mean.sum
            /\ r.mean.sum <= r.ci_upper.value * r.mean.n
            /\ IsConstant(bs.scores) =>
                   /\ r.ci_lower.value = r.ci_upper.value
                   /\ r.ci_lower.value * r.mean.n = r.mean.sum

(***************************************************************************)
(* Range of the pillar scores.                                             *)
(***************************************************************************)
\* C13: every pillar score an evaluator returns lies in [0,1]; here the
\* judge_score of evaluate_summary (kept in tenths), for every JSON object
\* the judge model can return.
C13_JudgeScoreInUnitInterval ==
    (es.done /\ es.out.status = "returned") =>
        0 <= es.out.judge_score /\ es.out.judge_score <= 10

(***************************************************************************)
(* Properties of NLIEvaluator.evaluate_summary (SpecNli).                  *)
(***************************************************************************)
NliQualifying == {i \in 1..Len(nl.gt) : nl.gt[i].len >= 10}
NliCallsOf(i) == {k \in 1..Len(nl.calls) : nl.calls[k].gi = i}

\* the sentences a result has been appended for, in order
NliLabelled ==
    /\ \A k \in 1..Len(nl.results) :
          /\ nl.results[k].gi \in NliQualifying
          /\ nl.results[k].sentence = nl.gt[nl.results[k].gi]
          /\ \A l \in 1..(k - 1) : nl.results[l].gi < nl.results[k].gi
          /\ nl.results[k].label = "contradiction" <=>
                \E c \in NliCallsOf(nl.results[k].gi) :
                    nl.calls[c].label = "contradiction"
          /\ nl.results[k].label # "contradiction" =>
                Cardinality(NliCallsOf(nl.results[k].gi)) = Len(nl.summary)

\* each call has the candidate as premise and the reference as hypothesis;
\* the candidates of a reference sentence are tried in text order, and
\* none after a contradiction
NliCallOrder ==
    \A k \in 1..Len(nl.calls) :
        LET c == nl.calls[k]
        IN  /\ c.gi \in NliQualifying
            /\ c.premise = nl.summary[c.sj]
            /\ c.hypothesis = nl.gt[c.gi]
            /\ IF c.sj = 1
               THEN k = 1 \/ nl.calls[k - 1].gi < c.gi
               ELSE /\ nl.calls[k - 1].gi = c.gi
                    /\ nl.calls[k - 1].sj = c.sj - 1
                    /\ nl.calls[k - 1].label # "contradiction"

NliReturned == nl.out # NoNliResult

NliStatistics ==
    NliReturned =>
        LET r == nl.out.value
            contradicted == Cardinality({k \in 1..Len(r.sentence_results) :
                                r.sentence_results[k].label = "contradiction"})
        IN  /\ r.sentence_results = nl.results
            /\ {nl.results[k].gi : k \in 1..Len(nl.results)} = NliQualifying
            /\ r.total_sentences = Cardinality(NliQualifying)
            /\ r.counts.contradiction = contradicted
            /\ r.contradiction_rate.num * r.total_sentences
                   = contradicted * r.contradiction_rate.den
            /\ r.nli_score.den = r.contradiction_rate.den
            /\ r.nli_score.num = r.contradiction_rate.den - r.contradiction_rate.num

NliNothingToCompare == NliQualifying = {} \/ nl.summary = <<>>

\* C15: when the filtered sentence list of the reference or of the
\* candidate is empty, the evaluator returns an empty-result payload whose
\* pillar score is 0; here the contradiction detector and its nli_score.
C15_EmptyListsScoreZero ==
    (NliReturned /\ NliNothingToCompare) =>
        /\ nl.out.value.nli_score.num = 0
        /\ nl.out.value.sentence_results = <<>>

(***************************************************************************)
(* Properties of the best model (SpecComposite).                           *)
(***************************************************************************)
Scored == cp.phase # "input"
AvgLess(m1, m2) ==
    SumSeq(cp.composite_scores[m1]) * Len(cp.composite_scores[m2])
        < SumSeq(cp.composite_scores[m2]) * Len(cp.composite_scores[m1])

\* the place of a model's first key in the iteration of the NLI results
FirstMet(m) ==
    Min({i \in 1..Len(CompositeOrder) :
            CompositeOrder[i] \in DOMAIN cp.nli /\ CompositeOrder[i][2] = m})

ScoredModels == {k[2] : k \in DOMAIN cp.per_case}

\* C16: best_model has an average composite no other model exceeds; of the
\* models with that average it is the one met first when iterating the
\* cases and then the models of the NLI results; it is None exactly when
\* there is no (case, model) entry; best_avg_score is its average.
C16_BestModelIsFirstMaximum ==
    Scored =>
        /\ cp.best_model = <<>> <=> DOMAIN cp.per_case = {}
        /\ cp.best_model # <<>> =>
              /\ cp.best_model \in ScoredModels
              /\ \A m \in ScoredModels :
                    /\ ~AvgLess(cp.best_model, m)
                    /\ FirstMet(m) < FirstMet(cp.best_model) => AvgLess(m, cp.best_model)
              /\ cp.best_avg_score.den = Len(cp.composite_scores[cp.best_model])
              /\ cp.best_avg_score.num = SumSeq(cp.composite_scores[cp.best_model])

\* two models with the same average, the one met first is the best model
C16_Witness ==
    /\ cp.phase = "returned"
    /\ ScoredModels = {ModelG, ModelX}
    /\ ~AvgLess(ModelG, ModelX) /\ ~AvgLess(ModelX, ModelG)
    /\ Len(cp.composite_scores[ModelG]) # Len(cp.composite_scores[ModelX])
    /\ FirstMet(ModelG) < FirstMet(ModelX)
    /\ cp.best_model = ModelG

(***************************************************************************)
(* Properties of the artifact paths (SpecPaths).                           *)
(***************************************************************************)
\* C17: two distinct pillar-result keys never have the same artifact path.
C17_PathsInjective ==
    (pk.path_a # NoPath /\ pk.a # pk.b) => pk.path_a # pk.path_b

(***************************************************************************)
(* Properties of the local batch evaluators (SpecBatch).                   *)
(***************************************************************************)
BatchAtExisting ==
    /\ BatchAtItem
    /\ pb.summaries[Head(pb.items)] = "path"
    /\ pb.files[Head(pb.items)] # NoFile

BatchKeyLeftAlone ==
    /\ pb'.files = pb.files
    /\ pb'.writes = pb.writes
    /\ pb'.evaluations = pb.evaluations

\* C18: a run of evaluate_all_nli or evaluate_all_coverage that comes to
\* a key whose artifact exists skips it: it neither evaluates the key
\* again nor writes its file, and the artifact stays as it was.
C18_ExistingArtifactKept == [][BatchAtExisting => BatchKeyLeftAlone]_vars

(***************************************************************************)
(* Properties of the evaluation log (SpecLog).                             *)
(***************************************************************************)
IsSeqPrefix(p, q) == Len(p) <= Len(q) /\ SubSeq(q, 1, Len(p)) = p

Headers(records) == {i \in 1..Len(records) : records[i].kind = "header"}

\* the file exists from the first call on; its one header is its first
\* record and was written by the call that created the file
LogHeaderOnce ==
    /\ lg.file.exists <=> lg.calls > 0
    /\ lg.file.exists =>
          /\ Headers(lg.file.records) = {1}
          /\ lg.file.records[1].run = lg.created_by
          /\ lg.created_by = 1

\* after a call, the file is what it was before the call, then the header
\* if the call created the file, then one row per entry, in order
LogRowsOfCall ==
    (lg.phase = "idle" /\ lg.calls > 0) =>
        lg.file.records =
            lg.before
            \o (IF lg.created_by = lg.calls THEN <<HeaderRecord(lg.calls)>> ELSE <<>>)
            \o [i \in 1..Len(lg.entries) |-> RowRecord(lg.calls, lg.entries[i])]

\* C19: the log only grows: the content before a call is a prefix of the
\* content after it; the header is written once, by the call that creates
\* the file; each call appends one row per (case, model) entry.
C19_LogAppendOnly ==
    /\ [](LogHeaderOnce /\ LogRowsOfCall)
    /\ [][IsSeqPrefix(lg.file.records, lg'.file.records)]_vars

\* two calls on the same path, each with entries
C19_Witness ==
    /\ lg.phase = "idle"
    /\ lg.calls = 2
    /\ Len(lg.before) = 4
    /\ Len(lg.file.records) = 5
    /\ lg.file.records[5].run = 2

(***************************************************************************)
(* Properties of the analyses reading judge artifacts (SpecLoaders).       *)
(***************************************************************************)
\* the artifacts the analysis has read whose content does not parse or
\* whose name does not split into a case and a model
BadArtifacts ==
    {o \in ld.read :
        \E i \in 1..Len(ArtifactFiles) :
            /\ ArtifactFiles[i].name = o.name
            /\ \/ ~ArtifactFiles[i].content.parses
               \/ Len(Parts(ArtifactFiles[i])) # 2}

\* the files some recorded piece of data was read from
RECURSIVE OriginsOf(_)
OriginsOf(s) == IF s = <<>> THEN {} ELSE {Head(s).origin} \cup OriginsOf(Tail(s))

RecordedOrigins ==
    {r.origin : r \in ld.scores}
        \cup OriginsOf(ld.classified_errors) \cup OriginsOf(ld.classified_omissions)
        \cup OriginsOf(ld.data_points) \cup OriginsOf(ld.files_with_scores)

LoadersNeverRaise == ld.phase # "raised"
LoadersRecordNothingForBad == BadArtifacts \cap RecordedOrigins = {}

\* C20: every analysis reading judge artifacts skips a file whose content
\* does not parse or whose name does not split into case and model, records
\* no data for it, and goes on with the other files without raising.
C20_BadArtifactSkipped ==
    ld.phase # "idle" => LoadersNeverRaise /\ LoadersRecordNothingForBad

(***************************************************************************)
(* Properties of classify_error and classify_omission (SpecClassify).      *)
(***************************************************************************)
\* the keys of the table that have a pattern found in the text
MatchingKeys(kind, text) ==
    {TableOf(kind)[c] : c \in {d \in 1..Len(TableOf(kind)) :
                                  \E i \in 1..PatternsPerCategory :
                                      <<TableOf(kind)[d], i>> \in text}}

\* position of a key in the table
DeclaredAt(kind, key) == CHOOSE c \in 1..Len(TableOf(kind)) : TableOf(kind)[c] = key

\* C21: the returned list is non-empty, free of duplicates and in table
\* order, holds exactly the categories with a matching pattern (so its
\* first element is the earliest declared one), and is the one fallback
\* key when no pattern matches.
C21_ClassifiedInTableOrder ==
    tx.phase = "returned" =>
        LET out == tx.matches
            keys == MatchingKeys(tx.kind, tx.text)
        IN  /\ out # <<>>
            /\ \A i, j \in 1..Len(out) : i # j => out[i] # out[j]
            /\ IF keys = {} THEN out = <<Fallback(tx.kind)>>
               ELSE /\ {out[i] : i \in 1..Len(out)} = keys
                    /\ \A i, j \in 1..Len(out) :
                           i < j => DeclaredAt(tx.kind, out[i]) < DeclaredAt(tx.kind, out[j])
                    /\ \A k \in keys :
                           DeclaredAt(tx.kind, out[1]) <= DeclaredAt(tx.kind, k)

\* a text matching two patterns of one category and one of a later category
C21_Witness ==
    /\ tx.phase = "returned"
    /\ Len(tx.matches) = 2
    /\ \E k \in MatchingKeys(tx.kind, tx.text) : <<k, 1>> \in tx.text /\ <<k, 2>> \in tx.text

(***************************************************************************)
(* Properties of _weighted_kappa (SpecKappa).                              *)
(***************************************************************************)
RatioEq(a, b) == a.num * b.den = b.num * a.den

KappaInRange == \A i \in 1..Len(kp.pairs) : kp.pairs[i][1] \in Categories
                                            /\ kp.pairs[i][2] \in Categories
KappaIdentical == \A i \in 1..Len(kp.pairs) : kp.pairs[i][1] = kp.pairs[i][2]
KappaConstant == \A i \in 1..Len(kp.pairs) : kp.pairs[i] = kp.pairs[1]

\* sum over the pairs of the squared difference of the two ratings
SquaredDifferences == SumSeq([i \in 1..Len(kp.pairs) |->
                                 (kp.pairs[i][1] - kp.pairs[i][2]) * (kp.pairs[i][1] - kp.pairs[i][2])])
\* sum over every rating of the first list and every rating of the second
CrossSquaredDifferences ==
    SumSeq([i \in 1..Len(kp.pairs) |->
               SumSeq([j \in 1..Len(kp.pairs) |->
                          (kp.pairs[i][1] - kp.pairs[j][2]) * (kp.pairs[i][1] - kp.pairs[j][2])])])

\* C22: for ratings in 1..5, two identical sequences give exactly 1 (a
\* constant sequence through the zero expected disagreement); any other
\* input gives 1 - O/E with quadratic weights and E from the marginals.
C22_KappaOneOrQuadratic ==
    (kp.phase = "returned" /\ KappaInRange) =>
        IF KappaIdentical
        THEN /\ kp.out.den # 0 /\ kp.out.num = kp.out.den
             /\ KappaConstant => ExpectedDisagreement(kp.confusion) = 0
        ELSE /\ CrossSquaredDifferences # 0
             /\ kp.out.den # 0
             /\ RatioEq(kp.out, Ratio(CrossSquaredDifferences - Len(kp.pairs) * SquaredDifferences,
                                      CrossSquaredDifferences))

\* two identical, non-constant sequences of three ratings
C22_Witness ==
    /\ kp.phase = "returned" /\ KappaInRange /\ KappaIdentical /\ ~KappaConstant
    /\ Len(kp.pairs) = 3

\* out-of-range ratings replaced by 1
RECURSIVE AsCategoryOne(_)
AsCategoryOne(pairs) ==
    IF pairs = <<>> THEN <<>>
    ELSE <<<<IF Head(pairs)[1] \in Categories THEN Head(pairs)[1] ELSE 1,
             IF Head(pairs)[2] \in Categories THEN Head(pairs)[2] ELSE 1>>>>
         \o AsCategoryOne(Tail(pairs))

\* C30: a rating outside 1..5 is counted as category 1: the value returned
\* is the one returned for the sequences with those ratings replaced by 1.
C30_OutOfRangeIsCategoryOne ==
    kp.phase = "returned" =>
        /\ kp.confusion = Confusion(AsCategoryOne(kp.pairs))
        /\ kp.out = weighted_kappa(AsCategoryOne(kp.pairs))
        /\ SumOver(Indices \X Indices, [p \in Indices \X Indices |-> kp.confusion[p[1], p[2]]])
               = Len(kp.pairs)

\* a 0 on one side only, against a 5
C30_Witness ==
    /\ kp.phase = "returned" /\ ~KappaInRange
    /\ \E i \in 1..Len(kp.pairs) : kp.pairs[i] = <<0, 5>>
    /\ kp.out.num # kp.out.den

(***************************************************************************)
(* Properties of the visiting order of evaluate_all_judge (SpecOrder).     *)
(***************************************************************************)
\* a case name of the form number, space, name
HasNumber(c) == Head(c) \in Digits
CaseNumber(c) == IntOf(LeadingDigits(c))
CaseRest(c) == SubSeq(c, Len(LeadingDigits(c)) + 2, Len(c))

\* the order the claim gives, which looks at the two keys only
ClaimedBefore(a, b) ==
    IF a[1] = b[1] THEN StrLess(a[2], b[2])
    ELSE IF HasNumber(a[1]) /\ HasNumber(b[1])
    THEN \/ CaseNumber(a[1]) < CaseNumber(b[1])
         \/ CaseNumber(a[1]) = CaseNumber(b[1]) /\ StrLess(CaseRest(a[1]), CaseRest(b[1]))
    ELSE IF HasNumber(a[1]) THEN TRUE
    ELSE IF HasNumber(b[1]) THEN FALSE
    ELSE StrLess(a[1], b[1])

PositionIn(s, x) == CHOOSE i \in 1..Len(s) : s[i] = x

\* the order of the code: by sort key, where a case without number has
\* the number 999999, and cases of equal key in the order of the dict
SortedBefore(ground_truths, a, b) ==
    IF a[1] = b[1] THEN StrLess(a[2], b[2])
    ELSE \/ CaseLess(a[1], b[1])
         \/ /\ ~CaseLess(b[1], a[1])
            /\ PositionIn(ground_truths, a[1]) < PositionIn(ground_truths, b[1])

DistinctSortKeys ==
    \A i, j \in 1..Len(vo.ground_truths) :
        i # j => get_case_sort_key(vo.ground_truths[i]) # get_case_sort_key(vo.ground_truths[j])

DefaultWaits == <<10, 20, 40, 80>>

\* C24: no wait precedes the first attempt, the wait before attempt k is
\* base_delay * 2^(k-2) whatever ended the attempt before, and no wait
\* follows the last attempt.
C24_BackoffSchedule ==
    cc.phase # "idle" =>
        /\ cc.requests = 0 => cc.waits = <<>>
        /\ cc.requests >= 1 => Len(cc.waits) = cc.requests - 1
        /\ Len(cc.waits) <= Len(DefaultWaits)
        /\ \A i \in 1..Len(cc.waits) :
               /\ cc.waits[i] = DefaultWaits[i]
               /\ i > 1 => cc.waits[i] = 2 * cc.waits[i - 1]
        /\ cc.waits # <<>> => cc.waits[1] = cc.base_delay

\* all five attempts made, the last one ended by a timeout
C24_Witness ==
    /\ cc.phase = "raised" /\ cc.error = "RuntimeError"
    /\ cc.last = "timeout"
    /\ cc.requests = MAX_RETRIES
    /\ cc.waits = DefaultWaits

(***************************************************************************)
(* The sentence filters of the two local evaluators (SpecFilter).          *)
(***************************************************************************)
\* the reference sentences the contradiction detector kept
NliKept == [i \in 1..Len(nl.results) |-> nl.results[i].sentence]

\* C25: both evaluators keep exactly the same reference sentences, also
\* for a sentence of exactly 10 characters, and both discard the candidate
\* sentences under the minimum length before comparing.
C25_SameSentenceFilter ==
    (nl # Idle /\ nl.out # NoNliResult /\ cv.phase = "returned") =>
        /\ NliKept = cv.gt_sentences
        /\ nl.out.value.total_sentences = Len(cv.gt_sentences)
        /\ \A i \in 1..Len(nl.calls) : nl.calls[i].premise.len >= MIN_SENTENCE_LEN
        /\ \A i \in 1..Len(cv.summary_sentences) :
               cv.summary_sentences[i].len >= MIN_SENTENCE_LEN

(***************************************************************************)
(* Properties of the severity aggregation (SpecAggregate).                 *)
(***************************************************************************)
\* C26: every classified error is counted in exactly one of the buckets
\* Minor, Major, Critical, Other, so the buckets of a category sum to the
\* category's error count, and no severity value makes the aggregation
\* raise.
C26_SeverityBucketsComplete ==
    /\ ag.phase # "raised"
    /\ ag.phase = "reported" =>
          \A row \in ag.rows :
              row.minor + row.major + row.critical + row.other
                  = CategoryCount(ag.errors, row.category)

(***************************************************************************)
(* Properties of compute_score_distributions (SpecDistributions).          *)
(***************************************************************************)
\* the population variance of the column is under 1/4:
\* 4 * sum((n*x - total)^2) < n^3
VarianceUnderQuarter(d) ==
    LET arr == Column(sd.evaluations, d)
        n == Len(arr)
        total == SumSeq(arr)
    IN  4 * SumSeq([i \in 1..n |-> (n * arr[i] - total) * (n * arr[i] - total)]) < n * n * n

WithinOneStep(d) ==
    \A i, j \in 1..Len(sd.evaluations) :
        sd.evaluations[i][d] - sd.evaluations[j][d] <= 1

\* C27: for each of factual_accuracy and completeness the low-power
\* warning is present iff the standard deviation is below 0.5, and the
\* narrow-range warning iff max - min is at most 1.
C27_WarningsPerDimension ==
    sd.phase = "returned" =>
        /\ "low power: factual_accuracy" \in sd.warnings <=> VarianceUnderQuarter(1)
        /\ "low power: completeness" \in sd.warnings <=> VarianceUnderQuarter(2)
        /\ "narrow range: factual_accuracy" \in sd.warnings <=> WithinOneStep(1)
        /\ "narrow range: completeness" \in sd.warnings <=> WithinOneStep(2)

(***************************************************************************)
(* C28: artifacts and reruns of evaluate_all_judge.                        *)
(***************************************************************************)
ArtifactWritten(k) == store'[PathOf(k)] # store[PathOf(k)]

\* a file is written only for the key whose call has just returned
WrittenAfterResponse ==
    \A k \in JudgeKeys :
        ArtifactWritten(k) =>
            jb.phase = "calling" /\ cc.phase = "returned" /\ k = CurrentKey

CallFails ==
    jb.phase = "calling" /\ jb'.phase = "raised" /\ jb'.last_step = "call_failed"

ScoreFails ==
    jb.phase = "calling" /\ jb'.phase = "raised" /\ jb'.last_step = "score_failed"

\* the key whose call raised has no artifact when the run ends
RaisedLeavesNone == CallFails => ~Exists(PathOf(CurrentKey))'

\* a visited key is requested exactly when it has no artifact
RequestsMissingOnly ==
    (AtItem /\ jb.summaries[CurrentKey] = "path") =>
        (jb'.phase = "calling" <=> ~Exists(PathOf(CurrentKey)))

C28_Step == WrittenAfterResponse /\ RaisedLeavesNone /\ RequestsMissingOnly

\* from some time on no chat_completion call ends with an exception
ServiceAnswers == <>[][~CallFails]_vars

EverySummaryHasArtifact ==
    /\ jb.phase = "returned"
    /\ \A k \in JudgeKeys : jb.summaries[k] = "path" => Exists(PathOf(k))

\* C28: a file is written for a key only after the call for that key
\* returned; a key whose call raised has no artifact; a run requests exactly
\* the visited keys without artifact; and when from some time on every call
\* is answered, the repeated runs reach a return with an artifact for every
\* key the run has a summary for.
C28_RerunsComplete ==
    [][C28_Step]_vars /\ (ServiceAnswers => <>EverySummaryHasArtifact)

\* The steps of C28 alone, and its last part when every answer also carries
\* two numeric scores.
C28_StepsHold == [][C28_Step]_vars
C28_ScorableRerunsComplete ==
    <>[][~CallFails /\ ~ScoreFails]_vars => <>EverySummaryHasArtifact

(***************************************************************************)
(* C29: an artifact that cannot be read as JSON.                           *)
(***************************************************************************)
Corrupt(k) == store[PathOf(k)].kind = "corrupt"

\* a call for key k starts in this step
Requests(k) == jb.phase # "calling" /\ jb'.phase = "calling" /\ k = CurrentKey'

NeverRepaired ==
    \A k \in JudgeKeys :
        Corrupt(k) => /\ store'[PathOf(k)] = store[PathOf(k)]
                      /\ ~Requests(k)

AbsentFromResults ==
    \A k \in JudgeKeys :
        (Corrupt(k) /\ jb'.phase \in {"running", "returned"}) =>
            k \notin DOMAIN jb'.all_results

ScoredZero ==
    (jb.phase = "returned" /\ cp' # cp) =>
        \A k \in JudgeKeys :
            Corrupt(k) => /\ k \in DOMAIN cp'.per_case
                          /\ cp'.per_case[k].judge_score = 0

=============================================================================
